---- MODULE Spec2Model ----
(***************************************************************************)
(* A model of tiny-shell-rs: the REPL turn (repl.rs), the lexer            *)
(* (lexer/lexer.rs), the parser (parser/default.rs), the two executors     *)
(* (recursive_executor.rs, flatten_executor/flatten_executor.rs), the      *)
(* in-process redirection handler (redirect.rs), the fork/pipe pipeline    *)
(* handler (pipeline.rs), the expander (expander.rs) and the history       *)
(* (history.rs).                                                           *)
(*                                                                         *)
(* The specifications that share the module:                              *)
(*   Spec          one REPL turn per step: a line's AST is executed whole  *)
(*                 by the configured executor;                             *)
(*   SpecRedirect  RedirectHandler::handle_redirect on the shell's file    *)
(*                 descriptor table, one call per step;                    *)
(*   SpecPipe      PipelineHandler::exec_pipeline_generic, one system call *)
(*                 per step, with the forked children;                     *)
(*   SpecLex       Lexer::tokenize_all, one next_token call per step;      *)
(*   SpecParse     DefaultParser::parse on a token slice, one call per     *)
(*                 step;                                                   *)
(*   SpecFront     what Repl::run does with a line before exec: lex,       *)
(*                 parse, expand;                                          *)
(*   SpecHistory   HistoryManager::add and clear, one call per step;       *)
(*   SpecHistoryFile  the same after HistoryManager::load;                 *)
(*   SpecEnv       Environment::set, unset and export and the built-ins    *)
(*                 run on the Environment, one call per step;              *)
(*   SpecPipeEof   SpecPipe with stages that end on end-of-file, and       *)
(*                 fairness of the shell process and of every child.       *)
(***************************************************************************)
EXTENDS Integers, Sequences, FiniteSets, TLC

VARIABLES
    \* ---- Spec: the REPL and the executors
    repl_pc,        \* Repl::run: "read" (top of the loop), "match" (exec has
                    \* returned, its result not yet matched), "ended"
    executor_type,  \* config.executor_type: "recursive" or "flatten"
    cwd,            \* the shell process's working directory
    env,            \* the shell's Environment (name -> value)
    line,           \* the AST of the last line executed (NoNode before the first)
    pre,            \* cwd and env when that line's exec was called
    outcome,        \* what exec returned for it
    log,            \* the commands that line ran, in order
    \* ---- SpecRedirect: the descriptor table of the shell process
    fds,            \* fd -> open file description ("none": closed)
    fds_pre,        \* the table when the last handle_redirect was called
    r_call,         \* the last call: its arguments, faults and result
    \* ---- SpecPipe: exec_pipeline_generic and its children
    p_pc,           \* where the parent stands in exec_pipeline_generic
    p_n,            \* nodes.len()
    p_i,            \* the loop index i
    prev_read_fd,   \* Option<i32>: None is -1
    pipefds,        \* the pair pipe() filled for stage i
    child_pids,     \* pids pushed so far
    p_w,            \* the index into child_pids of the wait loop
    p_open,         \* pipe descriptors the parent process holds open
    p_made,         \* pipe descriptors this call has created
    p_procs,        \* pid -> state of each forked child
    p_ret,          \* the value returned ("" while running)
    \* ---- SpecLex: Lexer::tokenize_all
    l_pc,           \* "idle", "loop" (inside tokenize_all's loop), "done"
    l_input,        \* self.input, as its sequence of chars
    l_pos,          \* self.pos
    l_tokens,       \* the local Vec tokens
    l_ret,          \* how tokenize_all ended
    \* ---- SpecParse: DefaultParser::parse
    ps_pc,          \* "idle" or "done"
    ps_tokens,      \* the token slice the parser was built on
    ps_result,      \* what parse returned
    \* ---- SpecFront: a line on its way to the executor
    fe_pc,          \* "idle" or "done"
    fe_input,       \* the line read, as its sequence of chars
    fe_result,      \* how far the line got, and the tokens and ASTs made of it
    \* ---- SpecHistory: HistoryManager
    entries,        \* self.entries
    h_call,         \* the last call: its name, its argument, entries before it
    max_len,        \* self.max_len
    \* ---- SpecEnv: Environment and the built-ins that are given it
    env_vars,       \* Environment.vars: name -> [value, exported]
    e_call          \* the last call: its name, its arguments, vars before it,
                    \* and what a built-in returned

vars == << repl_pc, executor_type, cwd, env, line, pre, outcome, log,
           fds, fds_pre, r_call,
           p_pc, p_n, p_i, prev_read_fd, pipefds, child_pids, p_w,
           p_open, p_made, p_procs, p_ret,
           l_pc, l_input, l_pos, l_tokens, l_ret,
           ps_pc, ps_tokens, ps_result,
           fe_pc, fe_input, fe_result,
           entries, h_call, max_len, env_vars, e_call >>

replVars  == << repl_pc, executor_type, cwd, env, line, pre, outcome, log >>
redirVars == << fds, fds_pre, r_call >>
pipeVars  == << p_pc, p_n, p_i, prev_read_fd, pipefds, child_pids, p_w,
                p_open, p_made, p_procs, p_ret >>
lexVars   == << l_pc, l_input, l_pos, l_tokens, l_ret >>
parseVars == << ps_pc, ps_tokens, ps_result >>
frontVars == << fe_pc, fe_input, fe_result >>
histVars  == << entries, h_call, max_len >>
envVars   == << env_vars, e_call >>

(***************************************************************************)
(* ExecOutcome and ExecStatus.  The recursive executor and its built-ins    *)
(* return Result<ExecOutcome, ExecError>; the flatten executor returns     *)
(* Result<i32, ExecError>, which is lifted to Code(n).  Halt(n) is the     *)
(* flatten draft's `exit`: std::process::exit(n) inside the built-in.      *)
(***************************************************************************)
Code(n) == [k |-> "Code", n |-> n, e |-> ""]
Exit(n) == [k |-> "Exit", n |-> n, e |-> ""]
Halt(n) == [k |-> "Halt", n |-> n, e |-> ""]
Err(e)  == [k |-> "Err",  n |-> 0, e |-> e]

IsErr(o) == o.k = "Err"

(***************************************************************************)
(* AstNode.  One record shape for every variant; unused fields are empty.  *)
(***************************************************************************)
Node(t, name, args, children, kind, file) ==
    [type |-> t, name |-> name, args |-> args, children |-> children,
     kind |-> kind, file |-> file]

Command(name, args) == Node("Command", name, args, << >>, "Simple", "")
Sequence(children)  == Node("Sequence", "", << >>, children, "", "")
Pipeline(children)  == Node("Pipeline", "", << >>, children, "", "")
And(l, r)           == Node("And", "", << >>, << l, r >>, "", "")
Or(l, r)            == Node("Or", "", << >>, << l, r >>, "", "")
Subshell(inner)     == Node("Subshell", "", << >>, << inner >>, "", "")
Redirect(inner, kind, file) == Node("Redirect", "", << >>, << inner >>, kind, file)
NoNode              == Node("None", "", << >>, << >>, "", "")

(***************************************************************************)
(* The host the shell runs on: the programs PATH resolves, the status each *)
(* exits with, the directories that exist and the files that can be        *)
(* opened.  A program missing from Programs does not resolve.              *)
(***************************************************************************)
Programs == { "pwd", "false", "grep", "crash" }

\* The ExitStatus wait gives for each program: it exited with a code
\* (signal 0), or it was terminated by a signal ("crash", by SIGSEGV).
ExitStatus(name) ==
    CASE name = "false" -> [code |-> 1, signal |-> 0]
      [] name = "grep"  -> [code |-> 2, signal |-> 0]
      [] name = "crash" -> [code |-> 0, signal |-> 11]
      [] OTHER          -> [code |-> 0, signal |-> 0]

\* status.code().unwrap_or(1): code() is None for a signalled process.
ProgStatus(name) ==
    IF ExitStatus(name).signal # 0 THEN 1 ELSE ExitStatus(name).code

Dirs == { "/", "/tmp", "/home/u" }

\* File::open for In; File::create / OpenOptions..open for Out and Append.
CanOpen(kind, file) ==
    IF kind = "In" THEN file \in { "in.txt" } ELSE file \in { "out.txt", "in.txt" }

\* PathResolver::resolve: Some(path) exactly for the programs on PATH.
Resolve(name) == name \in Programs

\* str::parse::<i32>() on the argument strings the lines use.
ParsesI32(s) == s \in { "0", "3" }
ParseI32(s)  == IF s = "3" THEN 3 ELSE 0

(***************************************************************************)
(* The state exec works on: the process's working directory, the           *)
(* Environment, what descriptors 0 and 1 refer to, the process exec runs   *)
(* in ("shell", or "child" after a fork), and two histories of what was    *)
(* done: the commands run (log) and the files opened (opened).             *)
(***************************************************************************)
Machine(c, e) ==
    [cwd |-> c, env |-> e, stdin |-> "tty", stdout |-> "tty",
     proc |-> "shell", log |-> << >>, opened |-> << >>]

Ran(cmd, m, builtin, res) ==
    [name |-> cmd.name, args |-> cmd.args, builtin |-> builtin, proc |-> m.proc,
     cwd |-> m.cwd, stdin |-> m.stdin, stdout |-> m.stdout, res |-> res]

Result(m, out) == [m |-> m, out |-> out]

Logged(cmd, m, builtin, res) == [m EXCEPT !.log = Append(@, Ran(cmd, m, builtin, res))]

(***************************************************************************)
(* Built-ins of the recursive executor (executor/builtins/builtin.rs).     *)
(***************************************************************************)
\* BuiltinManager::new registers help, cd, exit, export; Repl::run adds history.
BuiltinNames == { "help", "cd", "exit", "export", "history" }

is_builtin(name) == name \in BuiltinNames

\* CdCommand::run
CdTarget(args) == IF Len(args) > 0 THEN args[1] ELSE "/"

CdCommand_run(cmd, m) ==
    LET target == CdTarget(cmd.args) IN
    IF target \in Dirs
    THEN Result([Logged(cmd, m, TRUE, Code(0)) EXCEPT !.cwd = target], Code(0))
    ELSE Result(Logged(cmd, m, TRUE, Code(1)), Code(1))

\* ExitCommand::run: args.get(0).and_then(parse).unwrap_or(0)
ExitArg(args) ==
    IF Len(args) > 0 /\ ParsesI32(args[1]) THEN ParseI32(args[1]) ELSE 0

ExitCommand_run(cmd, m) ==
    Result(Logged(cmd, m, TRUE, Exit(ExitArg(cmd.args))), Exit(ExitArg(cmd.args)))

\* HelpCommand::run, ExportCommand::run (its body is commented out) and
\* HistoryCommand::run without arguments: print and return Code(0).
OtherCommand_run(cmd, m) == Result(Logged(cmd, m, TRUE, Code(0)), Code(0))

\* BuiltinManager::execute
execute(cmd, m) ==
    CASE cmd.name = "cd"   -> CdCommand_run(cmd, m)
      [] cmd.name = "exit" -> ExitCommand_run(cmd, m)
      [] cmd.name \in BuiltinNames \ { "cd", "exit" } -> OtherCommand_run(cmd, m)
      [] OTHER -> Result(m, Err("NoSuchBuiltin"))

(***************************************************************************)
(* RecursiveExecutor (executor/recursive_executor/recursive_executor.rs).  *)
(***************************************************************************)
\* Command::status() of a resolved program: status.code().unwrap_or(1)
SpawnStatus(cmd, m) ==
    Result(Logged(cmd, m, FALSE, Code(ProgStatus(cmd.name))), Code(ProgStatus(cmd.name)))

\* RecursiveExecutor::exec_command
RecExecCommand(cmd, m) ==
    IF cmd.kind = "Builtin" THEN Result(m, Err("NotImplemented"))
    ELSE IF is_builtin(cmd.name) THEN execute(cmd, m)
    ELSE IF ~Resolve(cmd.name) THEN Result(m, Code(127))
    ELSE SpawnStatus(cmd, m)

\* The descriptor a redirection kind replaces.
RedirTarget(kind) == IF kind = "In" THEN "stdin" ELSE "stdout"

WithStdio(m, kind, file) ==
    IF kind = "In" THEN [m EXCEPT !.stdin = file] ELSE [m EXCEPT !.stdout = file]

RestoreStdio(m, kind, saved) ==
    IF kind = "In" THEN [m EXCEPT !.stdin = saved.stdin]
    ELSE [m EXCEPT !.stdout = saved.stdout]

PipeName(i) == << "pipe1", "pipe2", "pipe3", "pipe4" >>[i]

\* What the child forked for stage i (1-based) of n starts from: the parent's
\* state, with the pipe ends exec_pipeline_generic dups onto 0 and 1.
StageMachine(m, i, n) ==
    [m EXCEPT !.proc = "child",
              !.stdin = IF i > 1 THEN PipeName(i - 1) ELSE m.stdin,
              !.stdout = IF i < n THEN PipeName(i) ELSE m.stdout]

RECURSIVE RecExec(_, _)
RECURSIVE RecSequence(_, _, _)
RECURSIVE RecPipeline(_, _, _)

\* RedirectHandler::handle_redirect as RecursiveExecutor::exec calls it, while
\* descriptors are available: open, save, dup2, exec, restore.
RecRedirect(node, m) ==
    IF ~CanOpen(node.kind, node.file) THEN Result(m, Err("Io"))
    ELSE LET m1 == [WithStdio(m, node.kind, node.file)
                        EXCEPT !.opened = Append(@, node.file)]
             r  == RecExec(node.children[1], m1)
         IN  Result(RestoreStdio(r.m, node.kind, m), r.out)

\* PipelineHandler::exec_pipeline_generic with exec_fn = |node| self.exec(node, env):
\* every stage runs in its own forked child, whose state is a copy; the parent
\* keeps only the record of what ran.  Returns Ok(0).
RecPipeline(nodes, i, m) ==
    IF i > Len(nodes) THEN Result(m, Code(0))
    ELSE LET r == RecExec(nodes[i], StageMachine(m, i, Len(nodes)))
         IN  RecPipeline(nodes, i + 1,
                         [m EXCEPT !.log = r.m.log, !.opened = r.m.opened])

\* for node in seq { self.exec(node, env)?; }  Ok(ExecOutcome::Code(0))
RecSequence(seq, i, m) ==
    IF i > Len(seq) THEN Result(m, Code(0))
    ELSE LET r == RecExec(seq[i], m)
         IN  IF IsErr(r.out) THEN r ELSE RecSequence(seq, i + 1, r.m)

\* impl Executor for RecursiveExecutor: exec
RecAnd(node, m) ==
    LET l == RecExec(node.children[1], m) IN
    IF IsErr(l.out) THEN l
    ELSE IF l.out = Code(0) THEN RecExec(node.children[2], l.m)
    ELSE Result(l.m, Code(1))

RecOr(node, m) ==
    LET l == RecExec(node.children[1], m) IN
    IF IsErr(l.out) THEN l
    ELSE IF l.out # Code(0) THEN RecExec(node.children[2], l.m)
    ELSE Result(l.m, Code(0))

RecExec(node, m) ==
    CASE node.type = "Command"  -> RecExecCommand(node, m)
      [] node.type = "Redirect" -> RecRedirect(node, m)
      [] node.type = "Pipeline" ->
            IF Len(node.children) < 2 THEN Result(m, Err("Custom"))
            ELSE RecPipeline(node.children, 1, m)
      [] node.type = "Sequence" -> RecSequence(node.children, 1, m)
      [] node.type = "And"      -> RecAnd(node, m)
      [] node.type = "Or"       -> RecOr(node, m)
      [] node.type = "Subshell" -> Result(m, Err("NotImplemented"))
      [] OTHER                  -> Result(m, Err("NotImplemented"))

(***************************************************************************)
(* FlattenExecutor (executor/flatten_executor/flatten_executor.rs) and its *)
(* built-ins (executor/builtins.rs), which return i32.                     *)
(***************************************************************************)
\* BuiltinManager::new of executor/builtins.rs: help, cd, exit, export.
FlatBuiltinNames == { "help", "cd", "exit", "export" }

\* ExitCommand::run of executor/builtins.rs: std::process::exit(code).
FlatExit_run(cmd, m) ==
    Result(Logged(cmd, m, TRUE, Halt(ExitArg(cmd.args))), Halt(ExitArg(cmd.args)))

\* BuiltinManager::execute of executor/builtins.rs: Ok(cmd.run(args, env))
FlatExecute(cmd, m) ==
    CASE cmd.name = "cd"   -> CdCommand_run(cmd, m)
      [] cmd.name = "exit" -> FlatExit_run(cmd, m)
      [] cmd.name \in FlatBuiltinNames \ { "cd", "exit" } -> OtherCommand_run(cmd, m)
      [] OTHER -> Result(m, Err("NoSuchBuiltin"))

\* FlattenExecutor::exec_command
FlatExecCommand(cmd, m) ==
    IF cmd.name \in FlatBuiltinNames THEN FlatExecute(cmd, m)
    ELSE IF ~Resolve(cmd.name) THEN Result(m, Code(127))
    ELSE SpawnStatus(cmd, m)

\* flatten_pipeline: the stages of a (possibly nested) Pipeline, left to right.
RECURSIVE flatten_pipeline(_)
RECURSIVE FlattenAll(_, _)
FlattenAll(nodes, i) ==
    IF i > Len(nodes) THEN << >>
    ELSE flatten_pipeline(nodes[i]) \o FlattenAll(nodes, i + 1)

flatten_pipeline(node) ==
    IF node.type = "Pipeline" THEN FlattenAll(node.children, 1) ELSE << node >>

\* flatten_redirects: the redirections stacked on a node, outermost first, and
\* the node under them.
RECURSIVE flatten_redirects(_)
flatten_redirects(node) ==
    IF node.type = "Redirect"
    THEN LET in == flatten_redirects(node.children[1])
         IN  [node |-> in.node,
              redirects |-> << [kind |-> node.kind, file |-> node.file] >> \o in.redirects]
    ELSE [node |-> node, redirects |-> << >>]

\* FlattenExecutor::prepare_command: a Command whose name resolves, or an error.
prepare_command(node) ==
    IF node.type # "Command" THEN "Not a command node"
    ELSE IF ~Resolve(node.name) THEN "Not found command"
    ELSE "ok"

\* The loop of exec_pipeline / exec_pipeline_with_redirect from stage i on:
\* prepare, connect, spawn; then wait for every child, the status being the
\* last one's.  sin and sout are the redirect files ("" when there is none).
RECURSIVE FlatStages(_, _, _, _, _)
FlatStages(cmds, i, m, sin, sout) ==
    IF i > Len(cmds)
    THEN Result(m, Code(ProgStatus(cmds[Len(cmds)].name)))
    ELSE IF prepare_command(cmds[i]) # "ok" THEN Result(m, Err("Custom"))
    ELSE LET n  == Len(cmds)
             cm == [m EXCEPT !.proc = "child",
                       !.stdin = IF i > 1 THEN PipeName(i - 1)
                                 ELSE IF sin # "" THEN sin ELSE m.stdin,
                       !.stdout = IF i < n THEN PipeName(i)
                                  ELSE IF sout # "" THEN sout ELSE m.stdout]
             e  == Ran(cmds[i], cm, FALSE, Code(ProgStatus(cmds[i].name)))
         IN  FlatStages(cmds, i + 1, [m EXCEPT !.log = Append(@, e)], sin, sout)

\* The loop of exec_redirect over the collected redirections: open each file
\* in turn; the last In and the last Out/Append opened are the ones used.
RECURSIVE OpenAll(_, _, _, _, _)
OpenAll(rs, i, m, sin, sout) ==
    IF i > Len(rs) THEN [ok |-> TRUE, m |-> m, sin |-> sin, sout |-> sout]
    ELSE IF ~CanOpen(rs[i].kind, rs[i].file)
         THEN [ok |-> FALSE, m |-> m, sin |-> sin, sout |-> sout]
    ELSE LET m1 == [m EXCEPT !.opened = Append(@, rs[i].file)]
         IN  IF rs[i].kind = "In" THEN OpenAll(rs, i + 1, m1, rs[i].file, sout)
             ELSE OpenAll(rs, i + 1, m1, sin, rs[i].file)

RECURSIVE FlatExec(_, _)

\* FlattenExecutor::exec_with_stdio
exec_with_stdio(node, m, sin, sout) ==
    CASE node.type = "Command" ->
            IF ~Resolve(node.name) THEN Result(m, Code(127))
            ELSE LET cm == [m EXCEPT !.stdin = IF sin # "" THEN sin ELSE m.stdin,
                                     !.stdout = IF sout # "" THEN sout ELSE m.stdout]
                     st == Code(ProgStatus(node.name))
                 IN  Result([m EXCEPT !.log = Append(@, Ran(node, cm, FALSE, st))], st)
      [] node.type = "Pipeline" -> FlatStages(flatten_pipeline(node), 1, m, sin, sout)
      [] OTHER -> FlatExec(node, m)

\* FlattenExecutor::exec_redirect
exec_redirect(node, m) ==
    LET fr == flatten_redirects(node)
        o  == OpenAll(fr.redirects, 1, m, "", "")
    IN  IF ~o.ok THEN Result(o.m, Err("Io"))
        ELSE exec_with_stdio(fr.node, o.m, o.sin, o.sout)

\* Sequence(lhs, rhs) and Pipeline(lhs, rhs) are binary in this draft's AST
\* (parser.rs nests to the left): the left operand of a longer list is the list
\* without its last element.
Lhs(node) ==
    IF Len(node.children) = 2 THEN node.children[1]
    ELSE [node EXCEPT !.children = SubSeq(@, 1, Len(@) - 1)]

Rhs(node) == node.children[Len(node.children)]

\* self.exec(lhs, env)? followed by what the operator does with the status;
\* nothing follows a std::process::exit.
FlatSequence(node, m) ==
    LET l == FlatExec(Lhs(node), m) IN
    IF IsErr(l.out) \/ l.out.k = "Halt" THEN l ELSE FlatExec(Rhs(node), l.m)

FlatAnd(node, m) ==
    LET l == FlatExec(node.children[1], m) IN
    IF IsErr(l.out) \/ l.out.k = "Halt" THEN l
    ELSE IF l.out.n = 0 THEN FlatExec(node.children[2], l.m)
    ELSE Result(l.m, Code(1))

FlatOr(node, m) ==
    LET l == FlatExec(node.children[1], m) IN
    IF IsErr(l.out) \/ l.out.k = "Halt" THEN l
    ELSE IF l.out.n # 0 THEN FlatExec(node.children[2], l.m)
    ELSE Result(l.m, Code(0))

\* FlattenExecutor::exec_subshell: self.exec(sub, &mut env.clone())
exec_subshell(node, m) ==
    LET r == FlatExec(node.children[1], m)
    IN  Result([r.m EXCEPT !.env = m.env], r.out)

\* impl Executor for FlattenExecutor: exec
FlatExec(node, m) ==
    CASE node.type = "Command"  -> FlatExecCommand(node, m)
      [] node.type = "Pipeline" -> FlatStages(flatten_pipeline(node), 1, m, "", "")
      [] node.type = "Redirect" -> exec_redirect(node, m)
      [] node.type = "Subshell" -> exec_subshell(node, m)
      [] node.type = "Sequence" -> FlatSequence(node, m)
      [] node.type = "And"      -> FlatAnd(node, m)
      [] node.type = "Or"       -> FlatOr(node, m)
      [] OTHER                  -> Result(m, Err("Unimplemented"))

(***************************************************************************)
(* Lexer (lexer/lexer.rs).  The input line is its sequence of chars; pos   *)
(* counts chars from 0, as the index into `chars` does in next_token.      *)
(***************************************************************************)
\* The chars of the lines lexed: letters, the two-byte letter "E" (such as
\* U+00E9), a blank, both quotes, the backslash and operator characters.
LexChars == { "a", "b", "E", " ", "\"", "'", "\\", "|", "&", ">", ";" }

\* char::len_utf8
Utf8Len(ch) == IF ch = "E" THEN 2 ELSE 1

\* The byte offset at which the char of index k starts in the &str.
RECURSIVE ByteOffset(_, _)
ByteOffset(chars, k) ==
    IF k = 0 THEN 0 ELSE ByteOffset(chars, k - 1) + Utf8Len(chars[k])

\* str::is_char_boundary(i)
is_char_boundary(chars, i) == \E k \in 0 .. Len(chars) : ByteOffset(chars, k) = i

\* The chars of &self.input[start..end], start and end being byte offsets that
\* are char boundaries.
RECURSIVE StrSlice(_, _, _, _)
StrSlice(chars, k, start, end) ==
    IF k > Len(chars) THEN << >>
    ELSE (IF start <= ByteOffset(chars, k - 1) /\ ByteOffset(chars, k - 1) < end
          THEN << chars[k] >> ELSE << >>) \o StrSlice(chars, k + 1, start, end)

Token(kind, lexeme, start, end) == [kind |-> kind, lexeme |-> lexeme, span |-> << start, end >>]

NoToken == Token("", << >>, 0, 0)
NoLexError == [kind |-> "", ch |-> "", pos |-> 0]

\* What one call of next_token does: Ok(Some(token)) with the new self.pos,
\* Err(LexError), or a panic.
LexToken(t, pos) == [k |-> "token", token |-> t, pos |-> pos, err |-> NoLexError]
LexError(kind, ch, at, pos) ==
    [k |-> "err", token |-> NoToken, pos |-> pos, err |-> [kind |-> kind, ch |-> ch, pos |-> at]]
LexPanic(pos) == [k |-> "panic", token |-> NoToken, pos |-> pos, err |-> NoLexError]

\* The arms '>', '<', ';', '(' and ')' of next_token: the kind each emits.
SingleCharKind(ch) ==
    CASE ch = ">" -> "RedirectOut"
      [] ch = "<" -> "RedirectIn"
      [] ch = ";" -> "Semicolon"
      [] ch = "(" -> "LParen"
      [] ch = ")" -> "RParen"
      [] OTHER    -> ""

\* while self.pos < chars.len() { if chars[self.pos] == q {..}; self.pos += 1 }:
\* the index of the closing quote, or chars.len() when there is none.
RECURSIVE FindQuote(_, _, _)
FindQuote(chars, q, pos) ==
    IF pos >= Len(chars) THEN Len(chars)
    ELSE IF chars[pos + 1] = q THEN pos
    ELSE FindQuote(chars, q, pos + 1)

\* The arms '\'' and '"' of next_token, pos being the index of the opening
\* quote.  The word buffer is not looked at; the lexeme is the byte slice
\* self.input[start..self.pos] taken with the char indices.
QuotedToken(chars, q, pos) ==
    LET start == pos + 1
        close == FindQuote(chars, q, start)
    IN  IF close >= Len(chars) THEN LexError("UnterminatedQuote", q, start - 1, close)
        ELSE IF ~is_char_boundary(chars, start) \/ ~is_char_boundary(chars, close)
             THEN LexPanic(close)
        ELSE LexToken(Token("Word", StrSlice(chars, 1, start, close), start, close), close + 1)

\* The loop of next_token from self.pos = pos, with the word buffer buf.
RECURSIVE Scan(_, _, _, _)
Scan(chars, pos, buf, token_start) ==
    IF pos >= Len(chars)
    THEN IF buf # << >> THEN LexToken(Token("Word", buf, token_start, pos), pos)
         ELSE LexToken(Token("Eof", << >>, pos, pos), pos)
    ELSE LET ch   == chars[pos + 1]
             word == Token("Word", buf, token_start, pos)
             two  == pos + 1 < Len(chars) /\ chars[pos + 2] = ch
         IN  CASE ch = " " ->
                    IF buf # << >> THEN LexToken(word, pos + 1)
                    ELSE Scan(chars, pos + 1, buf, token_start)
               [] ch = "|" ->
                    IF buf # << >> THEN LexToken(word, pos)
                    ELSE IF two THEN LexToken(Token("Or", << "|", "|" >>, pos, pos + 2), pos + 2)
                    ELSE LexToken(Token("Pipe", << "|" >>, pos, pos + 1), pos + 1)
               [] ch = "&" ->
                    IF buf # << >> THEN LexToken(word, pos)
                    ELSE IF two THEN LexToken(Token("And", << "&", "&" >>, pos, pos + 2), pos + 2)
                    ELSE LexToken(Token("NotImplemented", << "&" >>, pos, pos + 1), pos + 1)
               [] SingleCharKind(ch) # "" ->
                    IF buf # << >> THEN LexToken(word, pos)
                    ELSE LexToken(Token(SingleCharKind(ch), << ch >>, pos, pos + 1), pos + 1)
               [] ch \in { "'", "\"" } -> QuotedToken(chars, ch, pos)
               [] OTHER ->
                    Scan(chars, pos + 1, Append(buf, ch),
                         IF buf = << >> THEN pos ELSE token_start)

\* Lexer::next_token
next_token(chars, pos) == Scan(chars, pos, << >>, pos)

\* Lexer::tokenize_all run to its end from self.pos = pos with `tokens` pushed.
RECURSIVE tokenize_all(_, _, _)
tokenize_all(chars, pos, tokens) ==
    LET r == next_token(chars, pos) IN
    IF r.k # "token" THEN [k |-> r.k, tokens |-> << >>, err |-> r.err]
    ELSE IF r.token.kind = "Eof"
         THEN [k |-> "ok", tokens |-> Append(tokens, r.token), err |-> NoLexError]
    ELSE tokenize_all(chars, r.pos, Append(tokens, r.token))

\* The lines lexed: every string of at most MaxLexLen chars.
MaxLexLen == 4

LexInputs == UNION { [1 .. n -> LexChars] : n \in 0 .. MaxLexLen }

(***************************************************************************)
(* DefaultParser (parser/default.rs): recursive descent over the token     *)
(* slice, pos being the cursor self.pos (0-based).  Every function returns *)
(* its Result together with the cursor it leaves.                          *)
(***************************************************************************)
ParseOk(node, pos)  == [ok |-> TRUE, node |-> node, pos |-> pos, err |-> ""]
ParseErr(err, pos)  == [ok |-> FALSE, node |-> NoNode, pos |-> pos, err |-> err]

\* self.peek(): the kind of the token at the cursor ("" past the end).
PeekKind(toks, pos) == IF pos < Len(toks) THEN toks[pos + 1].kind ELSE ""

\* self.consume(pat)
consume(toks, pos, pat) == PeekKind(toks, pos) = pat

\* The loop of parse_command_like collecting Word lexemes from the cursor on.
RECURSIVE CollectWords(_, _, _)
CollectWords(toks, pos, args) ==
    IF PeekKind(toks, pos) = "Word"
    THEN CollectWords(toks, pos + 1, Append(args, toks[pos + 1].lexeme))
    ELSE [args |-> args, pos |-> pos]

\* parse_with_redirect: wrap node in a Redirect for each `>` WORD or `<` WORD
\* that follows; expect_word advances the cursor before it fails.
RECURSIVE parse_with_redirect(_, _, _)
parse_with_redirect(toks, node, pos) ==
    IF PeekKind(toks, pos) \in { "RedirectOut", "RedirectIn" }
    THEN IF PeekKind(toks, pos + 1) = "Word"
         THEN parse_with_redirect(
                 toks,
                 Redirect(node, IF PeekKind(toks, pos) = "RedirectOut" THEN "Out" ELSE "In",
                          toks[pos + 2].lexeme),
                 pos + 2)
         ELSE IF pos + 1 < Len(toks) THEN ParseErr("UnexpectedToken", pos + 2)
         ELSE ParseErr("EmptyInput", pos + 1)
    ELSE ParseOk(node, pos)

\* parse_pipeline's end: a single element is returned as it is, several as
\* AstNode::Pipeline(nodes).
PipelineOf(nodes) == IF Len(nodes) = 1 THEN nodes[1] ELSE Pipeline(nodes)

RECURSIVE parse_sequence(_, _)
RECURSIVE parse_or(_, _)
RECURSIVE parse_and(_, _)
RECURSIVE parse_pipeline(_, _)
RECURSIVE parse_command_like(_, _)
RECURSIVE SequenceLoop(_, _, _)
RECURSIVE OrLoop(_, _, _)
RECURSIVE AndLoop(_, _, _)
RECURSIVE PipeLoop(_, _, _)

\* parse_command_like: a parenthesised sequence as a Subshell, or the Words at
\* the cursor as one Command.
parse_command_like(toks, pos) ==
    IF consume(toks, pos, "LParen")
    THEN LET r == parse_sequence(toks, pos + 1) IN
         IF ~r.ok THEN r
         ELSE IF ~consume(toks, r.pos, "RParen") THEN ParseErr("UnmatchedParen", r.pos)
         ELSE ParseOk(Subshell(r.node), r.pos + 1)
    ELSE LET w == CollectWords(toks, pos, << >>) IN
         IF w.args = << >> THEN ParseErr("EmptyInput", w.pos)
         ELSE ParseOk(Command(w.args[1], Tail(w.args)), w.pos)

\* while self.consume(&TokenKind::Pipe) { nodes.push(self.parse_command_like()?) }
PipeLoop(toks, nodes, pos) ==
    IF consume(toks, pos, "Pipe")
    THEN LET r == parse_command_like(toks, pos + 1) IN
         IF ~r.ok THEN r ELSE PipeLoop(toks, Append(nodes, r.node), r.pos)
    ELSE parse_with_redirect(toks, PipelineOf(nodes), pos)

parse_pipeline(toks, pos) ==
    LET r == parse_command_like(toks, pos) IN
    IF ~r.ok THEN r ELSE PipeLoop(toks, << r.node >>, r.pos)

\* while self.consume(&TokenKind::And) { node = And(node, self.parse_pipeline()?) }
AndLoop(toks, node, pos) ==
    IF consume(toks, pos, "And")
    THEN LET r == parse_pipeline(toks, pos + 1) IN
         IF ~r.ok THEN r ELSE AndLoop(toks, And(node, r.node), r.pos)
    ELSE ParseOk(node, pos)

\* A parser without the && level, whose parse_or takes its operands straight
\* from parse_pipeline: what C17's grouping is told apart from.
NoAndLevel(toks, pos) == parse_pipeline(toks, pos)

parse_and(toks, pos) ==
    LET r == parse_pipeline(toks, pos) IN
    IF ~r.ok THEN r ELSE AndLoop(toks, r.node, r.pos)

\* while self.consume(&TokenKind::Or) { node = Or(node, self.parse_and()?) }
OrLoop(toks, node, pos) ==
    IF consume(toks, pos, "Or")
    THEN LET r == parse_and(toks, pos + 1) IN
         IF ~r.ok THEN r ELSE OrLoop(toks, Or(node, r.node), r.pos)
    ELSE ParseOk(node, pos)

parse_or(toks, pos) ==
    LET r == parse_and(toks, pos) IN
    IF ~r.ok THEN r ELSE OrLoop(toks, r.node, r.pos)

\* while self.consume(&TokenKind::Semicolon) { node = Sequence(vec![node, rhs]) }
SequenceLoop(toks, node, pos) ==
    IF consume(toks, pos, "Semicolon")
    THEN LET r == parse_or(toks, pos + 1) IN
         IF ~r.ok THEN r ELSE SequenceLoop(toks, Sequence(<< node, r.node >>), r.pos)
    ELSE ParseOk(node, pos)

parse_sequence(toks, pos) ==
    LET r == parse_or(toks, pos) IN
    IF ~r.ok THEN r ELSE SequenceLoop(toks, r.node, r.pos)

\* impl Parser for DefaultParser: parse
parse(toks) ==
    IF toks = << >> THEN ParseErr("EmptyInput", 0) ELSE parse_sequence(toks, 0)

(***************************************************************************)
(* The token slices parsed: what the lexer hands over for a line written   *)
(* with one blank between its items - Words and operators, then Eof.       *)
(***************************************************************************)
\* The text of each operator token.
OpLexeme(kind) ==
    CASE kind = "Pipe"           -> << "|" >>
      [] kind = "And"            -> << "&", "&" >>
      [] kind = "Or"             -> << "|", "|" >>
      [] kind = "Semicolon"      -> << ";" >>
      [] kind = "RedirectIn"     -> << "<" >>
      [] kind = "RedirectOut"    -> << ">" >>
      [] kind = "RedirectAppend" -> << ">", ">" >>
      [] kind = "LParen"         -> << "(" >>
      [] kind = "RParen"         -> << ")" >>

\* An item of a line: an operator, or the i-th word.
WordNames == << "a", "b", "c", "d", "e", "f" >>
Wd(i) == [kind |-> "Word", lexeme |-> << WordNames[i] >>]
Op(kind) == [kind |-> kind, lexeme |-> OpLexeme(kind)]

\* The tokens of the items from the k-th on, the k-th starting at offset off.
RECURSIVE TokensOf(_, _, _)
TokensOf(items, k, off) ==
    IF k > Len(items) THEN << Token("Eof", << >>, off - 1, off - 1) >>
    ELSE << Token(items[k].kind, items[k].lexeme, off, off + Len(items[k].lexeme)) >>
            \o TokensOf(items, k + 1, off + Len(items[k].lexeme) + 1)

LineTokens(items) ==
    IF items = << >> THEN << Token("Eof", << >>, 0, 0) >> ELSE TokensOf(items, 1, 0)

\* Words joined by operators: word 1, then for each i the i-th joiner and
\* word i+1.  The joiner "Word" is juxtaposition: the next word is an argument.
Joiners ==
    { "Word", "Pipe", "And", "Or", "Semicolon", "RedirectIn", "RedirectOut",
      "RedirectAppend" }

RECURSIVE ChainItems(_, _)
ChainItems(ops, i) ==
    IF i > Len(ops) THEN << >>
    ELSE (IF ops[i] = "Word" THEN << >> ELSE << Op(ops[i]) >>)
            \o << Wd(i + 1) >> \o ChainItems(ops, i + 1)

Chain(ops) == << Wd(1) >> \o ChainItems(ops, 1)

MaxWords == 5

Chains(n) == { Chain(ops) : ops \in UNION { [1 .. k -> Joiners] : k \in 0 .. n - 1 } }

\* Lines with parentheses, and lines that do not start with a word.
ParenLines ==
    { << Op("LParen") >> \o c \o t :
        c \in Chains(2),
        t \in { << >>, << Op("RParen") >>, << Op("RParen"), Wd(6) >>,
                << Op("RParen"), Op("Pipe"), Wd(6) >>,
                << Op("RParen"), Op("RedirectOut"), Wd(6) >> } }
        \cup { << Wd(6), Op(j), Op("LParen") >> \o c \o << Op("RParen") >> :
                j \in { "Pipe", "And", "Semicolon" }, c \in Chains(2) }
        \cup { << Op(j) >> \o c : j \in Joiners \ { "Word" }, c \in Chains(2) }
        \cup { c \o << Op(j) >> : j \in (Joiners \ { "Word" }) \cup { "RParen" }, c \in Chains(3) }
        \cup { c \o << Op("Pipe"), Op("LParen"), Wd(6) >> : c \in Chains(2) }
        \cup { << >> }

ParseLines == { LineTokens(items) : items \in Chains(MaxWords) \cup ParenLines }

(***************************************************************************)
(* Expander (expander.rs).  Strings are sequences of chars; e is the       *)
(* shell's Environment (name -> value) and home the process's HOME.        *)
(***************************************************************************)
\* env::var("HOME") when the variable is not set.
NoHome == << "unset" >>

\* char::is_ascii_alphabetic / is_ascii_alphanumeric on the chars used.
AsciiLetters == { "a", "b", "h", "v" }
is_var_start_char(c) == c \in AsciiLetters \cup { "_" }
is_var_char(c) == c \in AsciiLetters \cup { "_", "0", "1" }

\* self.env.get(&var_name).unwrap_or("")
EnvValue(e, name) == IF name \in DOMAIN e THEN e[name] ELSE << >>

ExpandOk(x)    == [ok |-> TRUE, val |-> x, err |-> ""]
ExpandError(e) == [ok |-> FALSE, val |-> << >>, err |-> e]

\* expand_tilde
expand_tilde(arg, home) ==
    IF arg # << >> /\ arg[1] = "~"
    THEN IF home = NoHome THEN ExpandError("TildeExpandFailed")
         ELSE ExpandOk(home \o Tail(arg))
    ELSE ExpandOk(arg)

\* The index of the first `}` from i on, Len(s) + 1 when there is none.
RECURSIVE FindBrace(_, _)
FindBrace(s, i) ==
    IF i > Len(s) \/ s[i] = "}" THEN i ELSE FindBrace(s, i + 1)

\* The index after the run of variable-name chars that starts at i.
RECURSIVE NameEnd(_, _)
NameEnd(s, i) ==
    IF i > Len(s) \/ ~is_var_char(s[i]) THEN i ELSE NameEnd(s, i + 1)

\* substitute_vars, from the i-th char on.
RECURSIVE substitute_vars(_, _, _)
substitute_vars(s, i, e) ==
    IF i > Len(s) THEN << >>
    ELSE IF s[i] = "\\"
         THEN IF i < Len(s) THEN << s[i + 1] >> \o substitute_vars(s, i + 2, e) ELSE << >>
    ELSE IF s[i] = "$"
         THEN IF i < Len(s) /\ s[i + 1] = "{"
              THEN LET close == FindBrace(s, i + 2) IN
                   EnvValue(e, SubSeq(s, i + 2, close - 1))
                       \o substitute_vars(s, close + 1, e)
              ELSE IF i < Len(s) /\ is_var_start_char(s[i + 1])
              THEN LET end == NameEnd(s, i + 1) IN
                   EnvValue(e, SubSeq(s, i + 1, end - 1)) \o substitute_vars(s, end, e)
              ELSE << "$" >> \o substitute_vars(s, i + 1, e)
    ELSE << s[i] >> \o substitute_vars(s, i + 1, e)

\* expand_arg: tilde, variables, then command_substitute and glob_expand,
\* which return their input; the result is a Vec of one string.
expand_arg(arg, e, home) ==
    LET t == expand_tilde(arg, home) IN
    IF ~t.ok THEN t ELSE ExpandOk(<< substitute_vars(t.val, 1, e) >>)

\* expand_command: the name is the first part of its expansion; an argument
\* whose expansion fails is kept as written.
expand_command(cmd, e, home) ==
    LET name_parts == expand_arg(cmd.name, e, home)
        args_parts ==
            [i \in DOMAIN cmd.args |->
                LET a == expand_arg(cmd.args[i], e, home) IN
                IF a.ok THEN a.val[1] ELSE cmd.args[i]]
    IN  IF ~name_parts.ok THEN name_parts
        ELSE ExpandOk([cmd EXCEPT !.name = name_parts.val[1], !.args = args_parts])

RECURSIVE expand(_, _, _)

\* nodes.into_iter().map(|node| self.expand(node)).collect::<Result<Vec<_>, _>>()
RECURSIVE ExpandEach(_, _, _, _)
ExpandEach(nodes, i, e, home) ==
    IF i > Len(nodes) THEN ExpandOk(<< >>)
    ELSE LET x == expand(nodes[i], e, home) IN
         IF ~x.ok THEN x
         ELSE LET rest == ExpandEach(nodes, i + 1, e, home) IN
              IF ~rest.ok THEN rest ELSE ExpandOk(<< x.val >> \o rest.val)

\* Expander::expand
expand(node, e, home) ==
    CASE node.type = "Command" -> expand_command(node, e, home)
      [] node.type = "Redirect" ->
            LET inner == expand(node.children[1], e, home)
                file  == expand_arg(node.file, e, home)
            IN  IF ~inner.ok THEN inner
                ELSE IF ~file.ok THEN file
                ELSE ExpandOk([node EXCEPT !.children = << inner.val >>, !.file = file.val[1]])
      [] node.type \in { "Subshell", "Pipeline", "And", "Or", "Sequence" } ->
            LET xs == ExpandEach(node.children, 1, e, home) IN
            IF ~xs.ok THEN xs ELSE ExpandOk([node EXCEPT !.children = xs.val])
      [] OTHER -> ExpandError("Unsupported")

(***************************************************************************)
(* The lines taken from read to exec: words, each one of a few spellings,  *)
(* with one blank between them.                                            *)
(***************************************************************************)
FrontPieces ==
    { << "a" >>, << "b" >>, << "$", "a" >>, << "$", "b" >>, << "$", "{", "a", "}" >>,
      << "'", "$", "a", "'" >>, << "\"", "$", "a", "\"" >>, << "'", "'" >>, << "\"", "\"" >>,
      << "~" >>, << "\\", "$", "a" >>, << "|" >>, << ">" >>, << "'", "E", "'" >>, << " " >>,
      << "~", "b" >>, << "~", "/", "b" >>, << "a", "~" >> }

MaxFrontWords == 3

RECURSIVE JoinPieces(_, _)
JoinPieces(ps, i) ==
    IF i > Len(ps) THEN << >>
    ELSE (IF i > 1 THEN << " " >> ELSE << >>) \o ps[i] \o JoinPieces(ps, i + 1)

FrontInputs ==
    { JoinPieces(ps, 1) : ps \in UNION { [1 .. n -> FrontPieces] : n \in 0 .. MaxFrontWords } }

\* Environment::new(): the variables of the process (HOME among them when it
\* is set), `a` being set and `b` not.
FrontHomes == { NoHome, << "/", "h" >> }

FrontEnv(home) ==
    IF home = NoHome THEN (<< "a" >> :> << "v" >>)
    ELSE (<< "a" >> :> << "v" >>) @@ (<< "H", "O", "M", "E" >> :> home)

(***************************************************************************)
(* The lines the REPL may be given, as expanded ASTs.                      *)
(***************************************************************************)
Leaves ==
    { Command("pwd", << >>), Command("false", << >>), Command("grep", << >>),
      Command("nosuchcmd", << >>), Command("crash", << >>), Command("exit", << >>),
      Command("exit", << "3" >>), Command("cd", << "/tmp" >>) }

\* The operands placed beside a composite operand.
Probes == { Command("false", << >>), Command("exit", << "3" >>) }

Binary(A, B) ==
    { And(a, b) : a \in A, b \in B } \cup { Or(a, b) : a \in A, b \in B }
        \cup { Sequence(<< a, b >>) : a \in A, b \in B }

Wrapped(A) ==
    { Subshell(a) : a \in A } \cup { Redirect(a, "Out", "out.txt") : a \in A }

Redirected(A) ==
    { Redirect(a, "In", "in.txt") : a \in A }
        \cup { Redirect(a, "In", "missing.txt") : a \in A }

\* Every list over A of length 2 .. MaxStages.
MaxStages == 3

Lists(A) == UNION { [1..k -> A] : k \in 2..MaxStages }

Depth1 ==
    Binary(Leaves, Leaves) \cup Wrapped(Leaves) \cup Redirected(Leaves)
        \cup { Pipeline(<< a, b >>) : a \in Leaves, b \in Leaves }

Depth2 ==
    Binary(Depth1, Probes) \cup Binary(Probes, Depth1) \cup Wrapped(Depth1)
        \cup { Pipeline(l) : l \in Lists(Probes \cup { Command("grep", << >>) }) }
        \cup Redirected({ Redirect(a, "Out", "out.txt") : a \in Leaves })
        \cup { Sequence(l) : l \in Lists(Probes) }

Lines == Leaves \cup Depth1 \cup Depth2

Envs == { [HOME |-> "/home/u"] }

(***************************************************************************)
(* Repl::run (repl.rs).                                                    *)
(***************************************************************************)
NoOutcome == [k |-> "None", n |-> 0, e |-> ""]

\* config.executor_type (config.rs): Recursive, or Flatten for any other value
ExecutorTypes == { "recursive", "flatten" }

ReplInit ==
    /\ repl_pc = "read"
    /\ executor_type \in ExecutorTypes
    /\ cwd = "/home/u"
    /\ env \in Envs
    /\ line = NoNode
    /\ pre = [cwd |-> "/home/u", env |-> env]
    /\ outcome = NoOutcome
    /\ log = << >>

\* executor.exec(&expanded, &mut env), by the executor the configuration selects
Exec(ast, m) ==
    IF executor_type = "recursive" THEN RecExec(ast, m) ELSE FlatExec(ast, m)

\* A line that lexed, parsed and expanded: the executor is built and exec called.
\* The flatten draft's exit ends the process inside exec.
ExecLine(ast) ==
    /\ repl_pc = "read"
    /\ LET r == Exec(ast, Machine(cwd, env)) IN
         /\ line' = ast
         /\ pre' = [cwd |-> cwd, env |-> env]
         /\ outcome' = r.out
         /\ log' = r.m.log
         /\ cwd' = r.m.cwd
         /\ env' = r.m.env
         /\ repl_pc' = IF r.out.k = "Halt" THEN "ended" ELSE "match"
    /\ UNCHANGED << executor_type, redirVars, pipeVars, lexVars, parseVars, frontVars, histVars, envVars >>

\* match executor.exec(..) { Ok(Code(_)) => continue, Err(e) => continue, .. }
MatchContinue ==
    /\ repl_pc = "match"
    /\ outcome.k \in { "Code", "Err" }
    /\ repl_pc' = "read"
    /\ line' = NoNode
    /\ outcome' = NoOutcome
    /\ log' = << >>
    /\ UNCHANGED << executor_type, cwd, env, pre, redirVars, pipeVars, lexVars, parseVars, frontVars, histVars, envVars >>

\* Ok(ExecOutcome::Exit(_)) => break
MatchExit ==
    /\ repl_pc = "match"
    /\ outcome.k = "Exit"
    /\ repl_pc' = "ended"
    /\ UNCHANGED << executor_type, cwd, env, line, pre, outcome, log, redirVars, pipeVars, lexVars, parseVars, frontVars, histVars, envVars >>

\* read_line returned Err(_) or Ok(None): break
ReadEnd ==
    /\ repl_pc = "read"
    /\ repl_pc' = "ended"
    /\ UNCHANGED << executor_type, cwd, env, line, pre, outcome, log, redirVars, pipeVars, lexVars, parseVars, frontVars, histVars, envVars >>

\* A blank line, or one that fails to lex, parse or expand: continue
LineSkipped ==
    /\ repl_pc = "read"
    /\ line' = NoNode
    /\ outcome' = NoOutcome
    /\ log' = << >>
    /\ UNCHANGED << repl_pc, executor_type, cwd, env, pre, redirVars, pipeVars, lexVars, parseVars, frontVars, histVars, envVars >>

\* A panic unwinding out of Repl::run.
Panicked(what) == [k |-> "Panic", n |-> 0, e |-> what]

\* lexer.tokenize_all() panics on the line read: the loop is left by unwinding.
LexerPanics ==
    /\ repl_pc = "read"
    /\ \E s \in LexInputs : tokenize_all(s, 0, << >>).k = "panic"
    /\ repl_pc' = "ended"
    /\ line' = NoNode
    /\ outcome' = Panicked("tokenize_all")
    /\ log' = << >>
    /\ UNCHANGED << executor_type, cwd, env, pre, redirVars, pipeVars, lexVars, parseVars, frontVars, histVars, envVars >>

\* std::env::current_dir().unwrap(), for a line that lexed, when the system
\* cannot give the working directory (it has been removed): a panic.
CurrentDirPanics ==
    /\ repl_pc = "read"
    /\ repl_pc' = "ended"
    /\ line' = NoNode
    /\ outcome' = Panicked("current_dir")
    /\ log' = << >>
    /\ UNCHANGED << executor_type, cwd, env, pre, redirVars, pipeVars, lexVars, parseVars, frontVars, histVars, envVars >>

(***************************************************************************)
(* RedirectHandler::handle_redirect (recursive_executor/redirect.rs) on    *)
(* the descriptor table of the shell process.  open and dup take the       *)
(* lowest free descriptor and fail when the table is full.                 *)
(***************************************************************************)
\* RLIMIT_NOFILE of the model: descriptors 0 .. NoFile-1 exist.
NoFile == 6

FdSet == 0 .. (NoFile - 1)

LowestFree(t) ==
    IF \E fd \in FdSet : t[fd] = "none"
    THEN CHOOSE fd \in FdSet : t[fd] = "none" /\ \A g \in FdSet : t[g] = "none" => fd <= g
    ELSE -1

\* libc::dup(target): -1 when target is closed or no descriptor is free.
DupFd(t, target) == IF t[target] = "none" THEN -1 ELSE LowestFree(t)

\* unsafe { libc::dup2(saved, target); libc::close(saved); } with both results
\* ignored: dup2(-1, target) fails and leaves target as it is.
RestoreFd(t, saved, target) ==
    IF saved = -1 THEN t
    ELSE [t EXCEPT ![target] = t[saved], ![saved] = "none"]

\* handle_redirect(node, kind, file, executor, env).  res is what the executor
\* returns for the command at the bottom of node; dup2fail is the nesting depth
\* at which dup2(fd, target) returns -1 (0: nowhere), depth the current one.
RECURSIVE handle_redirect(_, _, _, _, _, _, _)
handle_redirect(node, kind, file, t, res, dup2fail, depth) ==
    LET target == IF kind = "In" THEN 0 ELSE 1
        fd     == LowestFree(t)
    IN  IF ~CanOpen(kind, file) \/ fd = -1 THEN [fds |-> t, out |-> Err("Io")]
        ELSE LET t1    == [t EXCEPT ![fd] = file]
                 saved == DupFd(t1, target)
                 t2    == IF saved = -1 THEN t1 ELSE [t1 EXCEPT ![saved] = t1[target]]
             IN  IF dup2fail = depth
                 THEN \* early return: f is dropped, which closes fd; saved stays open
                      [fds |-> [t2 EXCEPT ![fd] = "none"], out |-> Err("Io")]
                 ELSE LET t3 == [t2 EXCEPT ![target] = file]
                          \* std::mem::forget(f); executor.exec(node, env)
                          r  == IF node.type = "Redirect"
                                THEN handle_redirect(node.children[1], node.kind, node.file,
                                                     t3, res, dup2fail, depth + 1)
                                ELSE [fds |-> t3, out |-> res]
                      IN  [fds |-> RestoreFd(r.fds, saved, target), out |-> r.out]

\* What the wrapped command may return, and the nodes handle_redirect is given.
CommandResults == { Code(0), Exit(3), Err("Io") }

RedirKinds == { "In", "Out", "Append" }
RedirFiles == { "in.txt", "missing.txt" }

RedirNodes ==
    { Command("pwd", << >>) }
        \cup { Redirect(Command("pwd", << >>), k, "in.txt") : k \in { "In", "Out" } }

NoCall == [node |-> NoNode, kind |-> "", file |-> "", res |-> NoOutcome,
           dup2fail |-> 0, out |-> NoOutcome]

RedirInit ==
    /\ fds = [fd \in FdSet |-> IF fd <= 2 THEN "tty" ELSE "none"]
    /\ fds_pre = fds
    /\ r_call = NoCall

\* One call of handle_redirect from the shell process.
HandleRedirect(node, kind, file, res, dup2fail) ==
    LET r == handle_redirect(node, kind, file, fds, res, dup2fail, 1) IN
    /\ r_call = NoCall
    /\ fds_pre' = fds
    /\ fds' = r.fds
    /\ r_call' = [node |-> node, kind |-> kind, file |-> file, res |-> res,
                  dup2fail |-> dup2fail, out |-> r.out]
    /\ UNCHANGED << replVars, pipeVars, lexVars, parseVars, frontVars, histVars, envVars >>

\* The caller goes on with the result; the shell is ready for the next call.
RedirectDone ==
    /\ r_call # NoCall
    /\ r_call' = NoCall
    /\ fds_pre' = fds
    /\ UNCHANGED << fds, replVars, pipeVars, lexVars, parseVars, frontVars, histVars, envVars >>

(***************************************************************************)
(* PipelineHandler::exec_pipeline_generic (executor/pipeline.rs), one      *)
(* system call of the parent per step.  An open pipe descriptor is a       *)
(* record: the descriptor number, the stage whose pipe it is, which end.   *)
(***************************************************************************)
MaxPipe == 3

None == -1

PipeEnd(fd, stage, end) == [fd |-> fd, stage |-> stage, end |-> end]

OpenFds == { d.fd : d \in p_open }

\* The lowest descriptor above stderr that is free, given the ones taken.
NextFd(taken) == CHOOSE fd \in 3 .. (3 + Cardinality(taken)) :
                    fd \notin taken /\ \A g \in 3 .. fd - 1 : g \in taken

is_last == p_i = p_n - 1

PipeInit ==
    /\ p_pc = "idle"
    /\ p_n = 0
    /\ p_i = 0
    /\ prev_read_fd = None
    /\ pipefds = << 0, 0 >>
    /\ child_pids = << >>
    /\ p_w = 1
    /\ p_open = { }
    /\ p_made = { }
    /\ p_procs = << >>
    /\ p_ret = ""

\* exec_pipeline_generic(nodes, exec_fn) is called with n nodes.
PipeCall(n) ==
    /\ p_pc = "idle"
    /\ p_n' = n
    /\ IF n < 2
       THEN p_pc' = "ret" /\ p_ret' = "Err(Custom)"
       ELSE p_pc' = "pipe" /\ p_ret' = ""
    /\ UNCHANGED << p_i, prev_read_fd, pipefds, child_pids, p_w, p_open, p_made,
                    p_procs, replVars, redirVars,
                    lexVars, parseVars, frontVars, histVars, envVars >>

\* if !is_last { libc::pipe(..) } succeeding
PipeOk ==
    /\ p_pc = "pipe"
    /\ ~is_last
    /\ LET r == NextFd(OpenFds)
           w == NextFd(OpenFds \cup { r })
           ends == { PipeEnd(r, p_i, "r"), PipeEnd(w, p_i, "w") }
       IN  /\ pipefds' = << r, w >>
           /\ p_open' = p_open \cup ends
           /\ p_made' = p_made \cup ends
    /\ p_pc' = "fork"
    /\ UNCHANGED << p_n, p_i, prev_read_fd, child_pids, p_w, p_procs, p_ret,
                    replVars, redirVars,
                    lexVars, parseVars, frontVars, histVars, envVars >>

\* libc::pipe(..) == -1: return Err(ExecError::Io(..))
PipeFail ==
    /\ p_pc = "pipe"
    /\ ~is_last
    /\ p_pc' = "ret"
    /\ p_ret' = "Err(Io)"
    /\ UNCHANGED << p_n, p_i, prev_read_fd, pipefds, child_pids, p_w, p_open, p_made,
                    p_procs, replVars, redirVars,
                    lexVars, parseVars, frontVars, histVars, envVars >>

\* the last stage: no pipe; let mut pipefds = [0; 2]
NoPipe ==
    /\ p_pc = "pipe"
    /\ is_last
    /\ pipefds' = << 0, 0 >>
    /\ p_pc' = "fork"
    /\ UNCHANGED << p_n, p_i, prev_read_fd, child_pids, p_w, p_open, p_made, p_procs,
                    p_ret, replVars, redirVars,
                    lexVars, parseVars, frontVars, histVars, envVars >>

\* The pipe ends the child keeps after its dup2 and close calls: the previous
\* pipe's read end as its stdin, this stage's write end as its stdout.
ChildEnds ==
    { d \in p_open : d.fd = prev_read_fd }
        \cup (IF is_last THEN { } ELSE { d \in p_open : d.fd = pipefds[2] })

\* The parent's branch after fork without close(pipefds[1]): only
\* prev_read_fd is closed.
ParentKeepsWriteEnd == { d \in p_open : d.fd = prev_read_fd }

\* The parent's branch after fork: close prev_read_fd, close pipefds[1],
\* prev_read_fd = Some(pipefds[0]) (None after the last stage).
ParentCloses ==
    { d \in p_open : d.fd = prev_read_fd }
        \cup (IF is_last THEN { } ELSE { d \in p_open : d.fd = pipefds[2] })

\* libc::fork() succeeding, and the parent's branch up to the next iteration
ForkOk ==
    /\ p_pc = "fork"
    /\ LET pid == Len(p_procs) + 1 IN
         /\ p_procs' = Append(p_procs, [state |-> "running", stage |-> p_i,
                                         ends |-> ChildEnds, status |-> 0])
         /\ child_pids' = Append(child_pids, pid)
    /\ p_open' = p_open \ ParentCloses
    /\ prev_read_fd' = IF is_last THEN None ELSE pipefds[1]
    /\ p_i' = p_i + 1
    /\ p_pc' = IF is_last THEN "wait" ELSE "pipe"
    /\ UNCHANGED << p_n, pipefds, p_w, p_made, p_ret, replVars, redirVars,
                    lexVars, parseVars, frontVars, histVars, envVars >>

\* pid < 0: return Err(ExecError::Io(..))
ForkFail ==
    /\ p_pc = "fork"
    /\ p_pc' = "ret"
    /\ p_ret' = "Err(Io)"
    /\ UNCHANGED << p_n, p_i, prev_read_fd, pipefds, child_pids, p_w, p_open, p_made,
                    p_procs, replVars, redirVars,
                    lexVars, parseVars, frontVars, histVars, envVars >>

\* A child ends: std::process::exit(exec_fn(node).unwrap_or(1))
ChildExit(pid, status) ==
    /\ pid \in DOMAIN p_procs
    /\ p_procs[pid].state = "running"
    /\ p_procs' = [p_procs EXCEPT ![pid].state = "zombie", ![pid].ends = { },
                                  ![pid].status = status]
    /\ UNCHANGED << p_pc, p_n, p_i, prev_read_fd, pipefds, child_pids, p_w, p_open,
                    p_made, p_ret, replVars, redirVars,
                    lexVars, parseVars, frontVars, histVars, envVars >>

\* Whether a read on the stdin of child pid meets end-of-file: its stdin is the
\* read end of the pipe of the stage before it, and neither the parent nor a
\* child that has not ended holds the write end of that pipe.
ReadsEof(pid) ==
    LET s == p_procs[pid].stage - 1
        IsWriteEnd(d) == d.stage = s /\ d.end = "w"
    IN  /\ \A d \in p_open : ~IsWriteEnd(d)
        /\ \A q \in DOMAIN p_procs :
              p_procs[q].state = "running" => \A d \in p_procs[q].ends : ~IsWriteEnd(d)

\* A child whose command reads its stdin to the end: the first stage ends on
\* its own, every other stage once its read meets end-of-file.
StageExit(pid, status) ==
    /\ pid \in DOMAIN p_procs
    /\ p_procs[pid].state = "running"
    /\ p_procs[pid].stage = 0 \/ ReadsEof(pid)
    /\ p_procs' = [p_procs EXCEPT ![pid].state = "zombie", ![pid].ends = { },
                                  ![pid].status = status]
    /\ UNCHANGED << p_pc, p_n, p_i, prev_read_fd, pipefds, child_pids, p_w, p_open,
                    p_made, p_ret, replVars, redirVars,
                    lexVars, parseVars, frontVars, histVars, envVars >>

\* libc::waitpid(pid, &mut status_code, 0) returns once that child has ended
WaitChild ==
    /\ p_pc = "wait"
    /\ p_w <= Len(child_pids)
    /\ p_procs[child_pids[p_w]].state = "zombie"
    /\ p_procs' = [p_procs EXCEPT ![child_pids[p_w]].state = "reaped"]
    /\ p_w' = p_w + 1
    /\ UNCHANGED << p_pc, p_n, p_i, prev_read_fd, pipefds, child_pids, p_open, p_made,
                    p_ret, replVars, redirVars,
                    lexVars, parseVars, frontVars, histVars, envVars >>

\* Ok(0)
PipeReturn ==
    /\ p_pc = "wait"
    /\ p_w > Len(child_pids)
    /\ p_pc' = "ret"
    /\ p_ret' = "Ok(0)"
    /\ UNCHANGED << p_n, p_i, prev_read_fd, pipefds, child_pids, p_w, p_open, p_made,
                    p_procs, replVars, redirVars,
                    lexVars, parseVars, frontVars, histVars, envVars >>

(***************************************************************************)
(* Lexer::tokenize_all (lexer/lexer.rs), one next_token call per step.     *)
(***************************************************************************)
NoLexReturn == [k |-> "", err |-> NoLexError]

LexInit ==
    /\ l_pc = "idle"
    /\ l_input = << >>
    /\ l_pos = 0
    /\ l_tokens = << >>
    /\ l_ret = NoLexReturn

\* Lexer::new(input) and the call of tokenize_all: let mut tokens = Vec::new()
LexStart(s) ==
    /\ l_pc = "idle"
    /\ l_pc' = "loop"
    /\ l_input' = s
    /\ l_pos' = 0
    /\ l_tokens' = << >>
    /\ l_ret' = NoLexReturn
    /\ UNCHANGED << replVars, redirVars, pipeVars, parseVars, frontVars, histVars, envVars >>

\* One turn of the loop: match self.next_token()? { Some(token) => push, break
\* on Eof }.  An Err returns at once and drops tokens; a panic unwinds.
LexNextToken ==
    /\ l_pc = "loop"
    /\ LET r == next_token(l_input, l_pos) IN
         /\ l_pos' = r.pos
         /\ IF r.k = "token"
            THEN /\ l_tokens' = Append(l_tokens, r.token)
                 /\ l_pc' = IF r.token.kind = "Eof" THEN "done" ELSE "loop"
                 /\ l_ret' = IF r.token.kind = "Eof"
                             THEN [k |-> "ok", err |-> NoLexError] ELSE l_ret
            ELSE /\ l_tokens' = << >>
                 /\ l_pc' = "done"
                 /\ l_ret' = [k |-> r.k, err |-> r.err]
    /\ UNCHANGED << l_input, replVars, redirVars, pipeVars, parseVars, frontVars, histVars, envVars >>

\* The caller has the result; the next line is lexed by a new Lexer.
LexReturn ==
    /\ l_pc = "done"
    /\ l_pc' = "idle"
    /\ l_input' = << >>
    /\ l_pos' = 0
    /\ l_tokens' = << >>
    /\ l_ret' = NoLexReturn
    /\ UNCHANGED << replVars, redirVars, pipeVars, parseVars, frontVars, histVars, envVars >>

(***************************************************************************)
(* DefaultParser::new(tokens) and parse (parser/default.rs), one call per  *)
(* step.                                                                   *)
(***************************************************************************)
\* DefaultParser::new(toks).parse()
Parse(toks) ==
    /\ ps_pc = "idle"
    /\ ps_pc' = "done"
    /\ ps_tokens' = toks
    /\ ps_result' = parse(toks)
    /\ UNCHANGED << replVars, redirVars, pipeVars, lexVars, frontVars, histVars, envVars >>

\* The caller has the result; the next line gets a new parser.
ParseReturn ==
    /\ ps_pc = "done"
    /\ ps_pc' = "idle"
    /\ ps_tokens' = << >>
    /\ ps_result' = << >>
    /\ UNCHANGED << replVars, redirVars, pipeVars, lexVars, frontVars, histVars, envVars >>

(***************************************************************************)
(* Repl::run from the line read to the AST handed to exec (repl.rs 51-86), *)
(* one call per step: tokenize_all, parse, expand.                         *)
(***************************************************************************)
\* l.trim().is_empty()
IsBlank(s) == \A i \in DOMAIN s : s[i] = " "

\* How far the line got: the stage reached, self.pos of the lexer, the
\* tokens pushed, the AST parsed, the AST expanded and the HOME of the process
\* when it was expanded.  The stages "blank",
\* "lex_error", "parse_error" and "expand_error" continue the loop, "panic"
\* unwinds, "exec" reaches the executor.
Front(stage, pos, tokens, ast, expanded) ==
    [stage |-> stage, pos |-> pos, tokens |-> tokens, ast |-> ast, expanded |-> expanded,
     home |-> NoHome]

\* The line read: a blank line continues at once, any other gets a Lexer.
FrontRead(s) ==
    /\ fe_pc = "idle"
    /\ fe_input' = s
    /\ IF IsBlank(s)
       THEN fe_pc' = "done" /\ fe_result' = Front("blank", 0, << >>, NoNode, NoNode)
       ELSE fe_pc' = "lex" /\ fe_result' = Front("lex", 0, << >>, NoNode, NoNode)
    /\ UNCHANGED << replVars, redirVars, pipeVars, lexVars, parseVars, histVars, envVars >>

\* One turn of tokenize_all's loop: a token is pushed (Eof being the last),
\* or the call fails ("lex_error": continue) or panics.
FrontLex ==
    /\ fe_pc = "lex"
    /\ LET r == next_token(fe_input, fe_result.pos) IN
         IF r.k = "panic"
         THEN fe_pc' = "done" /\ fe_result' = Front("panic", r.pos, << >>, NoNode, NoNode)
         ELSE IF r.k = "err"
         THEN fe_pc' = "done" /\ fe_result' = Front("lex_error", r.pos, << >>, NoNode, NoNode)
         ELSE /\ fe_pc' = IF r.token.kind = "Eof" THEN "lexed" ELSE "lex"
              /\ fe_result' = [fe_result EXCEPT !.pos = r.pos,
                                                !.tokens = Append(@, r.token),
                                                !.stage = IF r.token.kind = "Eof"
                                                          THEN "lexed" ELSE "lex"]
    /\ UNCHANGED << fe_input, replVars, redirVars, pipeVars, lexVars, parseVars, histVars, envVars >>

\* parser.parse(), then std::env::current_dir().unwrap(), which panics when
\* the system cannot give the working directory; a parse error continues.
FrontParsed(res, ast, cwd_ok) ==
    IF ~cwd_ok THEN [res EXCEPT !.stage = "panic", !.ast = ast.node]
    ELSE IF ~ast.ok THEN [res EXCEPT !.stage = "parse_error"]
    ELSE [res EXCEPT !.stage = "parsed", !.ast = ast.node]

FrontParse(cwd_ok) ==
    /\ fe_pc = "lexed"
    /\ fe_result' = FrontParsed(fe_result, parse(fe_result.tokens), cwd_ok)
    /\ fe_pc' = IF fe_result'.stage = "parsed" THEN "parsed" ELSE "done"
    /\ UNCHANGED << fe_input, replVars, redirVars, pipeVars, lexVars, parseVars, histVars, envVars >>

\* expander.expand(ast): an error continues, the expanded AST goes to exec.
FrontExpand(home) ==
    /\ fe_pc = "parsed"
    /\ fe_pc' = "done"
    /\ LET x == expand(fe_result.ast, FrontEnv(home), home) IN
         fe_result' = IF x.ok
                      THEN [fe_result EXCEPT !.stage = "exec", !.expanded = x.val,
                                             !.home = home]
                      ELSE [fe_result EXCEPT !.stage = "expand_error", !.home = home]
    /\ UNCHANGED << fe_input, replVars, redirVars, pipeVars, lexVars, parseVars, histVars, envVars >>

\* continue, or exec has returned: the next line is read.
FrontNext ==
    /\ fe_pc = "done"
    /\ fe_result.stage # "panic"
    /\ fe_pc' = "idle"
    /\ fe_input' = << >>
    /\ fe_result' = << >>
    /\ UNCHANGED << replVars, redirVars, pipeVars, lexVars, parseVars, histVars, envVars >>

(***************************************************************************)
(* HistoryManager (history.rs): entries, with max_len from the             *)
(* configuration (history_max).                                            *)
(***************************************************************************)
\* str::trim on lines whose only whitespace is the blank.
RECURSIVE TrimStart(_)
TrimStart(s) == IF s # << >> /\ s[1] = " " THEN TrimStart(Tail(s)) ELSE s

RECURSIVE TrimEnd(_)
TrimEnd(s) ==
    IF s # << >> /\ s[Len(s)] = " " THEN TrimEnd(SubSeq(s, 1, Len(s) - 1)) ELSE s

trim(s) == TrimEnd(TrimStart(s))

\* config.history_max, the largest max_len
MaxHistory == 3

\* HistoryManager::add without its two early returns: the trimmed line is
\* always pushed.
AddUnchecked(ents, l, m) ==
    IF Len(ents) + 1 > m THEN Tail(Append(ents, trim(l))) ELSE Append(ents, trim(l))

\* HistoryManager::add
add(ents, l, m) ==
    LET trimmed == trim(l) IN
    IF trimmed = << >> THEN ents
    ELSE IF ents # << >> /\ ents[Len(ents)] = trimmed THEN ents
    ELSE IF Len(ents) + 1 > m THEN Tail(Append(ents, trimmed))
    ELSE Append(ents, trimmed)

\* HistoryManager::load without the truncation to max_len.
LoadAll(opened, lines, m) ==
    IF opened THEN SelectSeq(lines, LAMBDA x : trim(x) # << >>) ELSE << >>

\* HistoryManager::load: the entries of the manager it returns.  opened: whether
\* File::open(path) succeeded; lines: the lines of the file.
load(opened, lines, m) ==
    LET kept == IF opened THEN SelectSeq(lines, LAMBDA x : trim(x) # << >>) ELSE << >> IN
    IF Len(kept) > m THEN SubSeq(kept, Len(kept) - m + 1, Len(kept)) ELSE kept

\* The lines a history file may hold, and the files: up to one line more than
\* the largest max_len.
HistFileLines == { << " " >>, << "a" >>, << " ", "a" >>, << "b" >> }

HistFiles == UNION { [1 .. n -> HistFileLines] : n \in 0 .. MaxHistory + 1 }

\* The lines given to add.
HistLines ==
    { << >>, << " " >>, << "a" >>, << " ", "a" >>, << "a", " " >>, << "b" >>,
      << " ", "b", " " >>, << "a", "b" >>, << "a", " ", "b" >> }

HistCall(op, l, before) == [op |-> op, line |-> l, before |-> before]

\* HistoryManager::load(config.history_file, config.history_max)
HistLoad(opened, lines, m) ==
    /\ entries' = load(opened, lines, m)
    /\ max_len' = m
    /\ h_call' = HistCall("load", << >>, IF opened THEN lines ELSE << >>)
    /\ UNCHANGED << replVars, redirVars, pipeVars, lexVars, parseVars, frontVars, envVars >>

\* history.add(line)
HistAdd(l) ==
    /\ entries' = add(entries, l, max_len)
    /\ h_call' = HistCall("add", l, entries)
    /\ UNCHANGED << max_len, replVars, redirVars, pipeVars, lexVars, parseVars,
                    frontVars, envVars >>

\* history.clear()
HistClear ==
    /\ entries' = << >>
    /\ h_call' = HistCall("clear", << >>, entries)
    /\ UNCHANGED << max_len, replVars, redirVars, pipeVars, lexVars, parseVars,
                    frontVars, envVars >>

(***************************************************************************)
(* Environment (environment.rs): vars, a map from names to a value and an  *)
(* exported flag, and the built-ins run on it.                             *)
(***************************************************************************)
Variable(value, exported) == [value |-> value, exported |-> exported]

\* Environment::new: the variables of the process, all exported
OsEnv == [k \in { "HOME" } |-> Variable("/h", TRUE)]

\* Environment::set as an insert: whatever was there is replaced by a
\* variable that is not exported.
SetInsert(vs, key, value) ==
    [k \in DOMAIN vs \cup { key } |-> IF k = key THEN Variable(value, FALSE) ELSE vs[k]]

\* Environment::set
set(vs, key, value) ==
    IF key \in DOMAIN vs
    THEN [vs EXCEPT ![key].value = value]
    ELSE [k \in DOMAIN vs \cup { key } |-> IF k = key THEN Variable(value, FALSE) ELSE vs[k]]

\* Environment::unset
unset(vs, key) == [k \in DOMAIN vs \ { key } |-> vs[k]]

\* Environment::export
export(vs, key) ==
    IF key \in DOMAIN vs THEN [vs EXCEPT ![key].exported = TRUE] ELSE vs

\* Environment::exported_vars
exported_vars(vs) == { << k, vs[k].value >> : k \in { n \in DOMAIN vs : vs[n].exported } }

\* The names and values the calls are given.
EnvNames == { "HOME", "a", "b" }
EnvValues == { "v", "w" }

\* The built-in calls BuiltinManager::execute is given.
BuiltinCalls ==
    { Command("export", << "a=v" >>), Command("export", << "a" >>),
      Command("export", << "HOME=v" >>), Command("exit", << >>),
      Command("exit", << "3" >>), Command("exit", << "x" >>) }

EnvCall(op, key, value, args, before, res) ==
    [op |-> op, key |-> key, value |-> value, args |-> args, before |-> before,
     res |-> res]

\* env.set(key, value)
EnvSet(key, value) ==
    /\ env_vars' = set(env_vars, key, value)
    /\ e_call' = EnvCall("set", key, value, << >>, env_vars, NoOutcome)
    /\ UNCHANGED << replVars, redirVars, pipeVars, lexVars, parseVars, frontVars, histVars >>

\* env.unset(key)
EnvUnset(key) ==
    /\ env_vars' = unset(env_vars, key)
    /\ e_call' = EnvCall("unset", key, "", << >>, env_vars, NoOutcome)
    /\ UNCHANGED << replVars, redirVars, pipeVars, lexVars, parseVars, frontVars, histVars >>

\* env.export(key)
EnvExport(key) ==
    /\ env_vars' = export(env_vars, key)
    /\ e_call' = EnvCall("export", key, "", << >>, env_vars, NoOutcome)
    /\ UNCHANGED << replVars, redirVars, pipeVars, lexVars, parseVars, frontVars, histVars >>

\* RecursiveExecutor::exec_command on a built-in, in the shell process:
\* self.builtin_manager.execute(&cmd.name, &cmd.args, env)
EnvBuiltin(cmd) ==
    /\ is_builtin(cmd.name)
    /\ env_vars' = execute(cmd, Machine("/home/u", env_vars)).m.env
    /\ e_call' = EnvCall("builtin", cmd.name, "", cmd.args, env_vars,
                         execute(cmd, Machine("/home/u", env_vars)).out)
    /\ UNCHANGED << replVars, redirVars, pipeVars, lexVars, parseVars, frontVars, histVars >>

(***************************************************************************)
(* The specifications.                                                     *)
(***************************************************************************)
ParseInit ==
    /\ ps_pc = "idle"
    /\ ps_tokens = << >>
    /\ ps_result = << >>

FrontInit ==
    /\ fe_pc = "idle"
    /\ fe_input = << >>
    /\ fe_result = << >>

HistInit ==
    /\ entries = << >>
    /\ h_call = << >>
    /\ max_len = MaxHistory

EnvInit ==
    /\ env_vars = OsEnv
    /\ e_call = << >>

Init ==
    ReplInit /\ RedirInit /\ PipeInit /\ LexInit /\ ParseInit /\ FrontInit /\ HistInit
        /\ EnvInit

\* The descriptor and pipeline specifications start from one shell.
InitShell == Init /\ executor_type = "recursive"

Next ==
    \/ repl_pc = "read" /\ \E ast \in Lines : ExecLine(ast)
    \/ MatchContinue
    \/ MatchExit
    \/ ReadEnd
    \/ LineSkipped
    \/ LexerPanics
    \/ CurrentDirPanics

Spec == Init /\ [][Next]_vars

NextRedirect ==
    \/ RedirectDone
    \/ \E node \in RedirNodes, kind \in RedirKinds, file \in RedirFiles,
       res \in CommandResults, dup2fail \in 0 .. 2 :
        HandleRedirect(node, kind, file, res, dup2fail)

SpecRedirect == InitShell /\ [][NextRedirect]_vars

NextPipe ==
    \/ \E n \in 1 .. MaxPipe : PipeCall(n)
    \/ PipeOk
    \/ PipeFail
    \/ NoPipe
    \/ ForkOk
    \/ ForkFail
    \/ \E pid \in 1 .. MaxPipe, status \in { 0, 1 } : ChildExit(pid, status)
    \/ WaitChild
    \/ PipeReturn

SpecPipe == InitShell /\ [][NextPipe]_vars

\* The steps of the shell process inside exec_pipeline_generic.
ParentStep ==
    \/ PipeOk
    \/ PipeFail
    \/ NoPipe
    \/ ForkOk
    \/ ForkFail
    \/ WaitChild
    \/ PipeReturn

\* The pipeline with stages that read their stdin to the end.  The shell
\* process and every child are scheduled: a step that stays possible is taken.
NextPipeEof ==
    \/ \E n \in 1 .. MaxPipe : PipeCall(n)
    \/ PipeOk
    \/ PipeFail
    \/ NoPipe
    \/ ForkOk
    \/ ForkFail
    \/ \E pid \in 1 .. MaxPipe, status \in { 0, 1 } : StageExit(pid, status)
    \/ WaitChild
    \/ PipeReturn

SpecPipeEof ==
    /\ InitShell
    /\ [][NextPipeEof]_vars
    /\ WF_vars(ParentStep)
    /\ \A pid \in 1 .. MaxPipe : WF_vars(\E status \in { 0, 1 } : StageExit(pid, status))

NextLex ==
    \/ l_pc = "idle" /\ \E s \in LexInputs : LexStart(s)
    \/ LexNextToken
    \/ LexReturn

SpecLex == InitShell /\ [][NextLex]_vars

NextParse ==
    \/ ps_pc = "idle" /\ \E toks \in ParseLines : Parse(toks)
    \/ ParseReturn

SpecParse == InitShell /\ [][NextParse]_vars

NextFront ==
    \/ fe_pc = "idle" /\ \E s \in FrontInputs : FrontRead(s)
    \/ FrontLex
    \/ \E cwd_ok \in BOOLEAN : FrontParse(cwd_ok)
    \/ \E home \in FrontHomes : FrontExpand(home)
    \/ FrontNext

SpecFront == InitShell /\ [][NextFront]_vars

NextHistory ==
    \/ \E l \in HistLines : HistAdd(l)
    \/ HistClear

SpecHistory == InitShell /\ [][NextHistory]_vars

\* The history as Repl::run has it: loaded from the file, then added to and
\* cleared.
NextHistoryFile ==
    \/ h_call = << >> /\ \E opened \in BOOLEAN, lines \in HistFiles, m \in 0 .. MaxHistory :
            HistLoad(opened, lines, m)
    \/ h_call # << >> /\ \E l \in HistLines : HistAdd(l)
    \/ h_call # << >> /\ HistClear

SpecHistoryFile == InitShell /\ [][NextHistoryFile]_vars

NextEnv ==
    \/ \E key \in EnvNames, value \in EnvValues : EnvSet(key, value)
    \/ \E key \in EnvNames : EnvUnset(key)
    \/ \E key \in EnvNames : EnvExport(key)
    \/ \E cmd \in BuiltinCalls : EnvBuiltin(cmd)

SpecEnv == InitShell /\ [][NextEnv]_vars

(***************************************************************************)
(* The properties, each checked at the point the specification speaks of:  *)
(* exec has returned to Repl::run (repl_pc = "match"), handle_redirect has *)
(* returned (r_call # NoCall), exec_pipeline_generic has returned          *)
(* (p_pc = "ret").                                                         *)
(***************************************************************************)
\* The state exec was called in for the line just executed.
PreMachine == Machine(pre.cwd, pre.env)

\* What the left and the right operand of the line do, the right one run
\* after the left one.
LeftRun  == Exec(Lhs(line), PreMachine)
RightRun == Exec(Rhs(line), LeftRun.m)

\* A line built from commands, Sequence, And and Or only.
RECURSIVE IsPlain(_)
IsPlain(node) ==
    /\ node.type \in { "Command", "Sequence", "And", "Or" }
    /\ \A i \in DOMAIN node.children : IsPlain(node.children[i])

\* C1: when a built-in of the line returns Exit(n), wherever it stands (alone,
\* a child of a Sequence, either side of And / Or), exec returns Exit(n) for
\* the whole line and no command runs after it, so that Repl::run breaks.
C1_ExitUnwinds ==
    (executor_type = "recursive" /\ repl_pc = "match" /\ IsPlain(line)) =>
        \A i \in DOMAIN log :
            (log[i].builtin /\ log[i].res.k = "Exit") =>
                (i = Len(log) /\ outcome = log[i].res)

\* C2: And(l, r) runs l first; when l's status is 0 it runs r and returns r's
\* status; otherwise r is not run and And returns exactly l's status.
C2_AndReturnsLeftStatus ==
    (repl_pc = "match" /\ line.type = "And" /\ LeftRun.out.k = "Code") =>
        IF LeftRun.out.n = 0
        THEN outcome = RightRun.out /\ log = RightRun.m.log
        ELSE outcome = LeftRun.out /\ log = LeftRun.m.log

\* C3: Or(l, r) runs l first; r is run if and only if l's status is non-zero,
\* and Or then returns r's status; otherwise r is never run and Or returns 0.
C3_OrRunsRightIffNonZero ==
    (repl_pc = "match" /\ line.type = "Or" /\ ~IsErr(LeftRun.out)) =>
        IF LeftRun.out.n # 0
        THEN outcome = RightRun.out /\ log = RightRun.m.log
        ELSE outcome = Code(0) /\ log = LeftRun.m.log

\* C4: a Sequence whose children return no ExecError runs them left to right,
\* once each, and returns the status of its last child.
C4_SequenceReturnsLast ==
    (repl_pc = "match" /\ line.type = "Sequence" /\ ~IsErr(outcome)) =>
        (outcome = RightRun.out /\ log = RightRun.m.log)

\* C5: the status of a pipeline of two or more stages is the status of its
\* last stage.
C5_PipelineReturnsLast ==
    (repl_pc = "match" /\ line.type = "Pipeline" /\ outcome.k = "Code"
        /\ Len(log) = Len(line.children)) =>
        outcome.n = log[Len(log)].res.n

\* What a user can observe of an exec: how it ended and with which status,
\* the commands it ran with their arguments and standard streams, the
\* working directory and the Environment it left.
ObsOutcome(o) ==
    CASE o.k = "Halt" -> Exit(o.n)
      [] o.k = "Err"  -> Err("")
      [] OTHER        -> o

ObsLog(l) ==
    [i \in DOMAIN l |-> [name |-> l[i].name, args |-> l[i].args, cwd |-> l[i].cwd,
                         stdin |-> l[i].stdin, stdout |-> l[i].stdout]]

Observed(r) ==
    [out |-> ObsOutcome(r.out), log |-> ObsLog(r.m.log), cwd |-> r.m.cwd, env |-> r.m.env]

\* C6: the recursive and the flatten executor behave the same on every line
\* and from every starting state: same outcome, same commands run, same
\* working directory and Environment afterwards.
C6_ExecutorsAgree ==
    (repl_pc # "read" /\ line # NoNode) =>
        Observed(RecExec(line, PreMachine)) = Observed(FlatExec(line, PreMachine))

\* C7: after a Subshell has been executed the shell's Environment and working
\* directory are what they were before it.
C7_SubshellIsolated ==
    (repl_pc = "match" /\ line.type = "Subshell") =>
        (cwd = pre.cwd /\ env = pre.env)

\* C8: when handle_redirect returns, with a status or with an error of the
\* command, of open, of dup or of dup2, descriptors 0, 1 and 2 refer to the
\* open files they referred to when it was called.
C8_StdioRestored ==
    r_call # NoCall => \A fd \in 0 .. 2 : fds[fd] = fds_pre[fd]

\* C9: when exec_pipeline_generic returns, on success and on every failure
\* path, every child it forked has been waited for.
C9_ChildrenReaped ==
    p_pc = "ret" => \A pid \in DOMAIN p_procs : p_procs[pid].state = "reaped"

\* C10: when exec_pipeline_generic returns, on success and on every failure
\* path, the shell holds no descriptor of a pipe the call created.
C10_NoPipeFdHeld ==
    p_pc = "ret" => p_made \cap p_open = { }

\* A command whose name is no built-in of either executor and does not resolve.
UnresolvedCmd(node) ==
    node.type = "Command" /\ node.name \notin BuiltinNames /\ ~Resolve(node.name)

\* A pipeline whose stages are all external commands, one of them unresolved.
HasUnresolvedStage(node) ==
    /\ node.type = "Pipeline"
    /\ \A i \in DOMAIN node.children :
          node.children[i].type = "Command" /\ node.children[i].name \notin BuiltinNames
    /\ \E i \in DOMAIN node.children : UnresolvedCmd(node.children[i])

\* C11: a command that is no built-in and does not resolve yields status 127
\* as a normal status, never an ExecError: alone, under a Redirect whose file
\* opens, and as a stage of a pipeline.
C11_NotFoundIs127 ==
    repl_pc = "match" =>
        /\ UnresolvedCmd(line) => outcome = Code(127)
        /\ (line.type = "Redirect" /\ UnresolvedCmd(line.children[1])
                /\ CanOpen(line.kind, line.file)) => outcome = Code(127)
        /\ HasUnresolvedStage(line) => ~IsErr(outcome)

\* A command whose name is a built-in registered in both executors.
BuiltinCmd(node) == node.type = "Command" /\ node.name \in FlatBuiltinNames

\* C12: a built-in is run in the shell process, without path resolution, also
\* under a Redirect, where it runs with the redirected descriptor in place.
C12_BuiltinRunsInShell ==
    /\ (line # NoNode /\ BuiltinCmd(line)) =>
            (Len(log) = 1 /\ log[1].builtin /\ log[1].proc = "shell")
    /\ (line.type = "Redirect" /\ BuiltinCmd(line.children[1])
            /\ CanOpen(line.kind, line.file)) =>
            /\ Len(log) = 1 /\ log[1].builtin /\ log[1].proc = "shell"
            /\ IF line.kind = "In" THEN log[1].stdin = line.file
               ELSE log[1].stdout = line.file

\* C13: Repl::run leaves its loop only on end of input, on a read error or on
\* an exit of the shell asked for by `exit`; lex, parse, expansion and
\* execution errors are reported and the next line is read.
C13_LoopEndsOnlyOnEofOrExit ==
    repl_pc = "ended" => outcome.k \in { "None", "Exit", "Halt" }

\* C14: tokenize_all ends, for every input, with a LexError or with a token
\* list holding exactly one Eof, in last position, whose lexeme is empty and
\* whose span is (n, n), n the length of the input; it never panics.
C14_LexingTotal ==
    l_pc = "done" =>
        /\ l_ret.k \in { "ok", "err" }
        /\ l_ret.k = "ok" =>
            /\ l_tokens # << >>
            /\ l_tokens[Len(l_tokens)] = Token("Eof", << >>, Len(l_input), Len(l_input))
            /\ \A i \in 1 .. Len(l_tokens) - 1 : l_tokens[i].kind # "Eof"

\* Letters, and a line made of letters and one quoted segment of letters with
\* at least one letter outside the quotes.
LexPlain(ch) == ch \in { "a", "b" }

WordWithQuotedSegment(s) ==
    \E i \in DOMAIN s, j \in DOMAIN s :
        /\ i < j /\ s[i] \in { "'", "\"" } /\ s[j] = s[i]
        /\ \A k \in DOMAIN s \ { i, j } : LexPlain(s[k])
        /\ j - i + 1 < Len(s)

\* C15: unquoted characters adjacent to a quoted segment are lexed with it as
\* one Word, whose lexeme is the concatenation of both; no character is lost
\* and no second Word is emitted.
C15_AdjacentQuotedMerges ==
    (l_pc = "done" /\ WordWithQuotedSegment(l_input)) =>
        /\ l_ret.k = "ok"
        /\ Len(l_tokens) = 2
        /\ l_tokens[1].kind = "Word"
        /\ l_tokens[1].lexeme = SelectSeq(l_input, LexPlain)

(***************************************************************************)
(* The grouping a line should get, read off its tokens without the parser: *)
(* the line is split at the last operator of the loosest level present.    *)
(***************************************************************************)
RedirectKinds == { "RedirectIn", "RedirectOut", "RedirectAppend" }
IsOperator(kind) == kind \notin { "Word", "Eof" }

\* Words joined by operators of the given kinds, each operator followed by a
\* word, the line ending in Eof.
ChainOver(toks, kinds) ==
    /\ Len(toks) >= 2
    /\ toks[Len(toks)].kind = "Eof"
    /\ toks[1].kind = "Word"
    /\ \A i \in 1 .. Len(toks) - 1 :
          IsOperator(toks[i].kind) => toks[i].kind \in kinds /\ toks[i + 1].kind = "Word"
    /\ \A i \in 1 .. Len(toks) - 2 :
          toks[i].kind \in RedirectKinds => toks[i + 2].kind # "Word"

HasKind(toks, kinds) == \E i \in DOMAIN toks : toks[i].kind \in kinds

Positions(toks, lo, hi, kinds) == { i \in lo .. hi : toks[i].kind \in kinds }
LastOf(toks, lo, hi, kinds) ==
    LET ps == Positions(toks, lo, hi, kinds) IN
    IF ps = {} THEN 0 ELSE CHOOSE p \in ps : \A q \in ps : q <= p
FirstOf(toks, lo, hi, kinds) ==
    LET ps == Positions(toks, lo, hi, kinds) IN
    IF ps = {} THEN hi + 1 ELSE CHOOSE p \in ps : \A q \in ps : p <= q

\* The command written by the words lo .. hi.
CmdOf(toks, lo, hi) == Command(toks[lo].lexeme, [k \in 1 .. hi - lo |-> toks[lo + k].lexeme])

RedirectKindOf(kind) ==
    CASE kind = "RedirectIn" -> "In" [] kind = "RedirectOut" -> "Out"
      [] kind = "RedirectAppend" -> "Append"

\* node under the redirections written from p to hi, the first innermost.
RECURSIVE WrapRedirects(_, _, _, _)
WrapRedirects(toks, node, p, hi) ==
    IF p > hi THEN node
    ELSE WrapRedirects(toks, Redirect(node, RedirectKindOf(toks[p].kind), toks[p + 1].lexeme),
                       p + 2, hi)

\* One stage with its own redirections.
RefStage(toks, lo, hi) ==
    LET r == FirstOf(toks, lo, hi, RedirectKinds) IN
    WrapRedirects(toks, CmdOf(toks, lo, r - 1), r, hi)

\* The |-separated stages of lo .. hi: a single stage as it is, several as one
\* Pipeline under the redirections that follow the last stage.
RefPipeline(toks, lo, hi) ==
    LET pipes == Positions(toks, lo, hi, { "Pipe" })
        n == Cardinality(pipes) + 1
        NthPipe(i) == CHOOSE p \in pipes : Cardinality({ q \in pipes : q < p }) = i - 1
        StartOf(i) == IF i = 1 THEN lo ELSE NthPipe(i - 1) + 1
        EndOf(i) == IF i = n THEN hi ELSE NthPipe(i) - 1
        r == FirstOf(toks, StartOf(n), hi, RedirectKinds)
    IN  IF n = 1 THEN RefStage(toks, lo, hi)
        ELSE WrapRedirects(
                toks,
                Pipeline([i \in 1 .. n |->
                            IF i < n THEN RefStage(toks, StartOf(i), EndOf(i))
                            ELSE CmdOf(toks, StartOf(n), r - 1)]),
                r, hi)

\* Left-associative grouping with `&&` and `||` on one level.
RECURSIVE LeftAssoc(_, _)
LeftAssoc(toks, hi) ==
    LET p == LastOf(toks, 1, hi, { "And", "Or" }) IN
    IF p = 0 THEN RefPipeline(toks, 1, hi)
    ELSE IF toks[p].kind = "And"
         THEN And(LeftAssoc(toks, p - 1), RefPipeline(toks, p + 1, hi))
         ELSE Or(LeftAssoc(toks, p - 1), RefPipeline(toks, p + 1, hi))

\* Grouping by the precedence order ; < || < && < | .
PrecLevels == << "Semicolon", "Or", "And" >>

RECURSIVE Grouped(_, _, _, _)
Grouped(toks, lo, hi, level) ==
    IF level > Len(PrecLevels) THEN RefPipeline(toks, lo, hi)
    ELSE LET p == LastOf(toks, lo, hi, { PrecLevels[level] })
             l == Grouped(toks, lo, p - 1, level)
             r == Grouped(toks, p + 1, hi, level + 1)
         IN  IF p = 0 THEN Grouped(toks, lo, hi, level + 1)
             ELSE CASE PrecLevels[level] = "Semicolon" -> Sequence(<< l, r >>)
                    [] PrecLevels[level] = "Or" -> Or(l, r)
                    [] PrecLevels[level] = "And" -> And(l, r)

\* The Pipeline nodes of a tree, and the words of its commands and files.
RECURSIVE PipelinesIn(_)
PipelinesIn(node) ==
    (IF node.type = "Pipeline" THEN { node } ELSE {})
        \cup UNION { PipelinesIn(node.children[i]) : i \in DOMAIN node.children }

RECURSIVE WordsIn(_)
WordsIn(node) ==
    (IF node.type = "Command" THEN { node.name } \cup { node.args[i] : i \in DOMAIN node.args }
     ELSE IF node.type = "Redirect" THEN { node.file } ELSE {})
        \cup UNION { WordsIn(node.children[i]) : i \in DOMAIN node.children }

\* The command a stage runs, under its redirections.
RECURSIVE StageCommand(_)
StageCommand(node) == IF node.type = "Redirect" THEN StageCommand(node.children[1]) ELSE node

Parsed == ps_pc = "done"

\* C16: in a chain of commands joined by any mix of && and ||, the two
\* operators have equal precedence and associate to the left: the left
\* operand of each operator is everything parsed before it, so that
\* `a || b && c` parses to And(Or(a, b), c).
C16_AndOrEqualPrecedence ==
    (Parsed /\ ChainOver(ps_tokens, { "And", "Or" })) =>
        /\ ps_result.ok
        /\ ps_result.node = LeftAssoc(ps_tokens, Len(ps_tokens) - 1)

\* C17: parsing respects the precedence order ; < || < && < | : a line of
\* commands joined by these operators is grouped with `|` tightest, then
\* `&&`, then `||`, and `;` loosest, each level associating to the left.
C17_PrecedenceOrder ==
    (Parsed /\ ChainOver(ps_tokens, { "Semicolon", "Or", "And", "Pipe" })) =>
        /\ ps_result.ok
        /\ ps_result.node = Grouped(ps_tokens, 1, Len(ps_tokens) - 1, 1)

\* `a || b && c | d ; e` has been parsed to
\* Sequence[Or(a, And(b, Pipeline[c, d])), e].
C17_Witness ==
    /\ Parsed
    /\ ps_tokens = LineTokens(<< Wd(1), Op("Or"), Wd(2), Op("And"), Wd(3), Op("Pipe"), Wd(4),
                                 Op("Semicolon"), Wd(5) >>)
    /\ ps_result.ok
    /\ ps_result.node =
          Sequence(<< Or(Command(<< "a" >>, << >>),
                         And(Command(<< "b" >>, << >>),
                             Pipeline(<< Command(<< "c" >>, << >>),
                                         Command(<< "d" >>, << >>) >>))),
                      Command(<< "e" >>, << >>) >>)

\* C18: every Pipeline node the parser produces has at least two children,
\* in source order, one per |-separated stage: a line of n stages gives one
\* Pipeline of exactly n children whose i-th child runs the i-th stage's
\* command, and a line with no `|` gives no Pipeline node.
C18_PipelineOneChildPerStage ==
    (Parsed /\ ChainOver(ps_tokens, { "Pipe", "RedirectIn", "RedirectOut" })) =>
        LET toks == ps_tokens
            hi == Len(toks) - 1
            pipes == Positions(toks, 1, hi, { "Pipe" })
            n == Cardinality(pipes) + 1
            StartOf(i) ==
                CHOOSE p \in 1 .. hi :
                    /\ p = 1 \/ toks[p - 1].kind = "Pipe"
                    /\ Cardinality({ q \in pipes : q < p }) = i - 1
            found == IF ps_result.ok THEN PipelinesIn(ps_result.node) ELSE {}
        IN  /\ ps_result.ok
            /\ \A pl \in found : Len(pl.children) >= 2
            /\ n = 1 => found = {}
            /\ n >= 2 =>
                  \E pl \in found :
                      /\ Len(pl.children) = n
                      /\ \A i \in 1 .. n :
                            StageCommand(pl.children[i]).name = toks[StartOf(i)].lexeme

\* C19: a redirection written between pipe stages binds to the stage it
\* follows and the pipeline continues after it: the line parses to a Pipeline
\* whose children are the stages, each under its own redirections, and every
\* word written after the redirection is in the tree.
C19_RedirectBetweenStagesBindsToStage ==
    (/\ Parsed
     /\ ChainOver(ps_tokens, { "Pipe", "RedirectIn", "RedirectOut" })
     /\ \E r, p \in DOMAIN ps_tokens :
           r < p /\ ps_tokens[r].kind \in RedirectKinds /\ ps_tokens[p].kind = "Pipe") =>
        /\ ps_result.ok
        /\ ps_result.node = RefPipeline(ps_tokens, 1, Len(ps_tokens) - 1)
        /\ \A i \in DOMAIN ps_tokens :
              ps_tokens[i].kind = "Word" => ps_tokens[i].lexeme \in WordsIn(ps_result.node)

\* C20: redirections written after the last stage of a pipeline wrap the
\* whole Pipeline node, the first written innermost; the last child of the
\* Pipeline is never a Redirect.
C20_TrailingRedirectsWrapPipeline ==
    (/\ Parsed
     /\ ChainOver(ps_tokens, { "Pipe" } \cup RedirectKinds)
     /\ HasKind(ps_tokens, { "Pipe" })
     /\ LET hi == Len(ps_tokens) - 1 IN
        LastOf(ps_tokens, 1, hi, { "Pipe" }) < LastOf(ps_tokens, 1, hi, RedirectKinds)) =>
        /\ ps_result.ok
        /\ ps_result.node = RefPipeline(ps_tokens, 1, Len(ps_tokens) - 1)
        /\ ps_result.node.type = "Redirect"
        /\ \A pl \in PipelinesIn(ps_result.node) :
              pl.children[Len(pl.children)].type # "Redirect"

\* C28: when an external command is terminated by signal N, the status exec
\* reports for it is 128 + N.
C28_SignalStatusIs128PlusN ==
    (/\ line.type = "Command"
     /\ Resolve(line.name)
     /\ line.name \notin BuiltinNames
     /\ ExitStatus(line.name).signal # 0
     /\ outcome # NoOutcome) =>
        outcome = Code(128 + ExitStatus(line.name).signal)

\* A pipeline of commands, each a built-in or a program on PATH, at least one
\* of them a built-in.
PipelineWithBuiltinStage(node) ==
    /\ node.type = "Pipeline"
    /\ \A i \in DOMAIN node.children :
          /\ node.children[i].type = "Command"
          /\ node.children[i].name \in BuiltinNames \/ Resolve(node.children[i].name)
    /\ \E i \in DOMAIN node.children : node.children[i].name \in BuiltinNames

\* C29: a built-in used as a pipeline stage runs in the forked child only:
\* after the pipeline the shell's environment and working directory are what
\* they were, and `exit` as a stage ends only that child - the pipeline
\* returns a Code outcome, never Exit, and the REPL goes on.
C29_BuiltinStageRunsInChild ==
    (PipelineWithBuiltinStage(line) /\ outcome # NoOutcome) =>
        /\ outcome.k = "Code"
        /\ repl_pc # "ended"
        /\ cwd = pre.cwd
        /\ env = pre.env
        /\ \A i \in DOMAIN line.children :
              line.children[i].name \in BuiltinNames =>
                  \E j \in DOMAIN log :
                      /\ log[j].name = line.children[i].name
                      /\ log[j].builtin
                      /\ log[j].proc = "child"

(***************************************************************************)
(* What a line should lex to, read off its characters without the lexer.   *)
(***************************************************************************)
QuoteChars == { "'", "\"" }
Backslash == "\\"
Letters == { "a", "b", "E" }

Contains(s, chs) == \E i \in DOMAIN s : s[i] \in chs

Kinds(toks) == [i \in DOMAIN toks |-> toks[i].kind]
IsRedirectKind(kind) == kind \in { "RedirectOut", "RedirectAppend" }

\* The redirection tokens of a line without quotes and escapes: `>>` is one
\* RedirectAppend, any other `>` one RedirectOut.
RECURSIVE RefRedirects(_, _)
RefRedirects(s, i) ==
    IF i > Len(s) THEN << >>
    ELSE IF s[i] = ">" /\ i < Len(s) /\ s[i + 1] = ">"
         THEN << "RedirectAppend" >> \o RefRedirects(s, i + 2)
    ELSE IF s[i] = ">" THEN << "RedirectOut" >> \o RefRedirects(s, i + 1)
    ELSE RefRedirects(s, i + 1)

\* C24: the two characters `>>` are lexed as exactly one RedirectAppend
\* token, and a `>` not followed by `>` as one RedirectOut token.
C24_AppendIsOneToken ==
    (l_pc = "done" /\ Contains(l_input, { ">" })
        /\ ~Contains(l_input, QuoteChars \cup { Backslash, "&" })) =>
        /\ l_ret.k = "ok"
        /\ SelectSeq(Kinds(l_tokens), IsRedirectKind) = RefRedirects(l_input, 1)

\* The index (from 0) of the first `&` that is not part of `&&`, -1 if none.
RECURSIVE LoneAmp(_, _)
LoneAmp(s, i) ==
    IF i > Len(s) THEN -1
    ELSE IF s[i] = "&" /\ i < Len(s) /\ s[i + 1] = "&" THEN LoneAmp(s, i + 2)
    ELSE IF s[i] = "&" THEN i - 1
    ELSE LoneAmp(s, i + 1)

\* C25: a `&` not immediately followed by another `&` makes the lexer fail
\* with UnexpectedChar('&', pos), pos being the offset of that `&`; no token
\* list is returned.
C25_LoneAmpersandRejected ==
    (l_pc = "done" /\ LoneAmp(l_input, 1) >= 0
        /\ ~Contains(l_input, QuoteChars \cup { Backslash })) =>
        /\ l_ret.k = "err"
        /\ l_ret.err.kind = "UnexpectedChar"
        /\ l_ret.err.ch = "&"
        /\ l_ret.err.pos \in { LoneAmp(l_input, 1), ByteOffset(l_input, LoneAmp(l_input, 1)) }
        /\ l_tokens = << >>

\* A line that is one word written with escapes: letters, and backslashes
\* each followed by a character.
RECURSIVE EscapedWord(_, _)
EscapedWord(s, i) ==
    IF i > Len(s) THEN TRUE
    ELSE IF s[i] = Backslash THEN i < Len(s) /\ EscapedWord(s, i + 2)
    ELSE s[i] \in Letters /\ EscapedWord(s, i + 1)

\* Its text: every backslash dropped, the character after it kept.
RECURSIVE Unescaped(_, _)
Unescaped(s, i) ==
    IF i > Len(s) THEN << >>
    ELSE IF s[i] = Backslash THEN << s[i + 1] >> \o Unescaped(s, i + 2)
    ELSE << s[i] >> \o Unescaped(s, i + 1)

\* C26: a backslash followed by any character consumes both and appends only
\* the second to the current word: an escaped blank, quote or operator
\* character neither ends the word nor starts a token.
C26_BackslashEscapes ==
    (l_pc = "done" /\ Contains(l_input, { Backslash }) /\ EscapedWord(l_input, 1)) =>
        /\ l_ret.k = "ok"
        /\ Len(l_tokens) = 2
        /\ l_tokens[1].kind = "Word"
        /\ l_tokens[1].lexeme = Unescaped(l_input, 1)

\* The index (from 0) of the first quote that is opened and not closed by a
\* later quote of the same kind, -1 if every quote is closed.
RECURSIVE OpenQuote(_, _)
OpenQuote(s, i) ==
    IF i > Len(s) THEN -1
    ELSE IF s[i] \in QuoteChars
         THEN IF \E j \in i + 1 .. Len(s) : s[j] = s[i]
              THEN OpenQuote(s, 1 + CHOOSE j \in i + 1 .. Len(s) :
                                    s[j] = s[i] /\ \A k \in i + 1 .. j - 1 : s[k] # s[i])
              ELSE i - 1
    ELSE OpenQuote(s, i + 1)

\* C27: when a quote is opened and no closing quote of the same kind follows,
\* tokenization returns UnterminatedQuote(q, p), q being the quote character
\* and p the position of the opening quote, and none of the tokens lexed
\* before it.
C27_UnterminatedQuoteReported ==
    (l_pc = "done" /\ OpenQuote(l_input, 1) >= 0
        /\ ~Contains(l_input, { Backslash, "&" })) =>
        /\ l_ret.k = "err"
        /\ l_ret.err = [kind |-> "UnterminatedQuote",
                        ch |-> l_input[OpenQuote(l_input, 1) + 1],
                        pos |-> OpenQuote(l_input, 1)]
        /\ l_tokens = << >>

\* The Command nodes of a tree.
RECURSIVE CommandsIn(_)
CommandsIn(node) ==
    (IF node.type = "Command" THEN { node } ELSE {})
        \cup UNION { CommandsIn(node.children[i]) : i \in DOMAIN node.children }

\* C22: every Command node of an AST obtained by lexing and parsing a line
\* has a non-empty name, also when the line starts with an empty quoted
\* segment, '' or "", followed by words.
C22_CommandNameNonEmpty ==
    (fe_pc \in { "parsed", "done" } /\ fe_result.ast # NoNode) =>
        \A c \in CommandsIn(fe_result.ast) : c.name # << >>

\* A line `w 'text'`: a plain word, a blank, and a single-quoted text.
SingleQuotedArg(s) ==
    /\ Len(s) >= 4
    /\ s[1] \in { "a", "b" }
    /\ s[2] = " "
    /\ s[3] = "'"
    /\ s[Len(s)] = "'"
    /\ \A i \in 4 .. Len(s) - 1 : s[i] \notin { "'", "E" }

\* C23: text written between single quotes reaches the command unchanged
\* after lexing, parsing and expansion: no variable substitution is applied
\* to it, so the argument of `a '$a'` is the text $a.
C23_SingleQuotedIsLiteral ==
    (fe_pc = "done" /\ SingleQuotedArg(fe_input) /\ fe_result.stage # "panic") =>
        /\ fe_result.stage = "exec"
        /\ fe_result.expanded.type = "Command"
        /\ fe_result.expanded.args = << SubSeq(fe_input, 4, Len(fe_input) - 1) >>

InfixKinds == { "And", "Or", "Pipe", "Semicolon" }

CountKind(toks, kind) == Cardinality({ i \in DOMAIN toks : toks[i].kind = kind })

\* A redirection operator not followed by a Word, a `(` without its `)`, or
\* an infix operator with nothing to its left.
Malformed(toks) ==
    \/ \E i \in 1 .. Len(toks) - 1 :
          toks[i].kind \in RedirectKinds /\ toks[i + 1].kind # "Word"
    \/ CountKind(toks, "LParen") > CountKind(toks, "RParen")
    \/ toks[1].kind \in InfixKinds
    \/ \E i \in 1 .. Len(toks) - 1 :
          toks[i].kind = "LParen" /\ toks[i + 1].kind \in InfixKinds

\* C21: parse returns an error, never an AST, when a redirection operator is
\* not followed by a Word, when a `(` has no matching `)`, and when an infix
\* operator (`&&`, `||`, `|`, `;`) has no left operand, as in `&& a`.
C21_MalformedLineIsAnError ==
    (Parsed /\ Malformed(ps_tokens) /\ ~HasKind(ps_tokens, { "RedirectAppend" })) =>
        ~ps_result.ok

\* C30: starting from an empty history, after any sequence of add and clear
\* calls no two adjacent entries are equal and no entry is empty; adding a
\* line that is empty after trimming, or equal after trimming to the current
\* last entry, leaves the history unchanged.
C30_HistoryCoalesced ==
    /\ \A i \in 1 .. Len(entries) - 1 : entries[i] # entries[i + 1]
    /\ \A i \in DOMAIN entries : entries[i] # << >>
    /\ (/\ h_call # << >>
        /\ h_call.op = "add"
        /\ \/ IsBlank(h_call.line)
           \/ /\ h_call.before # << >>
              /\ h_call.before[Len(h_call.before)] = trim(h_call.line)) =>
          entries = h_call.before

\* A line with blanks around the text of the last entry has been added to a
\* history of two entries, which is as it was.
C30_Witness ==
    /\ h_call # << >>
    /\ h_call.op = "add"
    /\ Len(h_call.before) = 2
    /\ h_call.line # trim(h_call.line)
    /\ h_call.before[2] = trim(h_call.line)
    /\ entries = h_call.before

\* C31: in every state reached by load followed by any sequence of add and
\* clear calls, the number of entries is at most max_len, for max_len = 0 and
\* for a history file longer than max_len as well.
C31_HistoryBounded == h_call # << >> => Len(entries) <= max_len

\* A history file with more lines than max_len has been loaded and only the
\* last max_len of them are kept, or a line has been added to a full history.
C31_Witness ==
    /\ h_call # << >>
    /\ max_len > 0
    /\ Len(entries) = max_len
    /\ \/ h_call.op = "load" /\ Len(h_call.before) > max_len
       \/ /\ h_call.op = "add"
          /\ Len(h_call.before) = max_len
          /\ entries # h_call.before

\* C32: for any sequence of set, unset and export calls on an Environment, set
\* on an existing variable changes its value and leaves its exported flag as
\* it was, and set on a variable that does not exist creates it with
\* exported = false, so that it is absent from exported_vars until export is
\* called on it.
C32_SetKeepsExportFlag ==
    [][/\ e_call'.op = "set" =>
            /\ e_call'.key \in DOMAIN env_vars'
            /\ env_vars'[e_call'.key].value = e_call'.value
            /\ e_call'.key \in DOMAIN env_vars =>
                   env_vars'[e_call'.key].exported = env_vars[e_call'.key].exported
            /\ e_call'.key \notin DOMAIN env_vars =>
                   /\ ~env_vars'[e_call'.key].exported
                   /\ \A p \in exported_vars(env_vars') : p[1] # e_call'.key
       /\ \A k \in DOMAIN env_vars \cap DOMAIN env_vars' :
            (~env_vars[k].exported /\ env_vars'[k].exported) =>
                (e_call'.op = "export" /\ e_call'.key = k)]_vars

\* set has given an exported variable another value, and it is still exported.
C32_Witness ==
    /\ e_call # << >>
    /\ e_call.op = "set"
    /\ e_call.key \in DOMAIN e_call.before
    /\ e_call.before[e_call.key].exported
    /\ e_call.before[e_call.key].value # e_call.value
    /\ env_vars[e_call.key] = Variable(e_call.value, TRUE)

\* The NAME and VAL of an argument of export.
ExportName(arg) ==
    CASE arg = "a=v" -> "a" [] arg = "HOME=v" -> "HOME" [] OTHER -> arg

ExportHasValue(arg) == arg \in { "a=v", "HOME=v" }

\* C33: after the built-in `export NAME=VAL` has run in the shell process the
\* environment holds NAME with value VAL, exported; after `export NAME` on an
\* existing variable, that variable is exported.
C33_ExportBuiltinExports ==
    (/\ e_call # << >>
     /\ e_call.op = "builtin"
     /\ e_call.key = "export") =>
        LET arg == e_call.args[1]
            name == ExportName(arg) IN
        IF ExportHasValue(arg)
        THEN name \in DOMAIN env_vars /\ env_vars[name] = Variable("v", TRUE)
        ELSE name \in DOMAIN e_call.before =>
                 name \in DOMAIN env_vars /\ env_vars[name].exported

\* C34: the built-in exit returns Exit(0) without an argument and Exit(n) for
\* a numeric argument n; for an argument that is not a number it reports an
\* error and returns no Exit outcome.
C34_ExitArgument ==
    (/\ e_call # << >>
     /\ e_call.op = "builtin"
     /\ e_call.key = "exit") =>
        IF e_call.args = << >> THEN e_call.res = Exit(0)
        ELSE IF e_call.args[1] = "3" THEN e_call.res = Exit(3)
        ELSE e_call.res.k # "Exit"

\* The words of an AST: command names, arguments and redirection files.
RECURSIVE AstWords(_)
AstWords(node) ==
    (IF node.type = "Command"
     THEN { node.name } \cup { node.args[i] : i \in DOMAIN node.args }
     ELSE IF node.type = "Redirect" THEN { node.file } ELSE { })
        \cup UNION { AstWords(node.children[i]) : i \in DOMAIN node.children }

\* C35: when the expansion of any word of a command fails - its name, one of
\* its arguments or a redirection file, as a tilde when HOME cannot be
\* obtained - expand returns an error for the whole line and the REPL
\* executes no part of that line.
C35_ExpandErrorAbandonsLine ==
    (/\ fe_pc = "done"
     /\ fe_result.stage \in { "exec", "expand_error" }
     /\ \E w \in AstWords(fe_result.ast) :
            ~expand_arg(w, FrontEnv(fe_result.home), fe_result.home).ok) =>
        fe_result.stage = "expand_error"

\* What tilde expansion should make of a word: HOME for `~`, HOME/x for `~/x`,
\* the word itself otherwise.
TildeOf(w, home) ==
    IF w = << "~" >> THEN home
    ELSE IF Len(w) > 1 /\ w[1] = "~" /\ w[2] = "/" THEN home \o Tail(w)
    ELSE w

\* Words that only tilde expansion changes.
PlainWord(w) == \A i \in DOMAIN w : w[i] \notin { "$", "\\" }

\* C36: tilde expansion replaces a leading `~` by HOME only when no
\* identifier follows it: `~` becomes HOME and `~/x` HOME/x, `~bob` is left as
\* it is, and a `~` that is not the first char of the word is never replaced.
C36_TildeOnlyBeforeSlash ==
    (/\ fe_pc = "done"
     /\ fe_result.stage = "exec"
     /\ fe_result.home # NoHome
     /\ fe_result.ast.type = "Command"
     /\ \A w \in AstWords(fe_result.ast) : PlainWord(w)) =>
        /\ fe_result.expanded.name = TildeOf(fe_result.ast.name, fe_result.home)
        /\ fe_result.expanded.args =
               [i \in DOMAIN fe_result.ast.args |->
                   TildeOf(fe_result.ast.args[i], fe_result.home)]

\* The descriptors open in a table.
OpenIn(t) == { fd \in FdSet : t[fd] # "none" }

\* C37: on every exit path of handle_redirect (success, an error returned by
\* the wrapped subtree, a failing dup2) every descriptor the call opened or
\* duplicated is closed before it returns: the shell's set of open
\* descriptors is the same after the call as before it.
C37_RedirectLeavesNoDescriptor ==
    r_call # NoCall => OpenIn(fds) = OpenIn(fds_pre)

\* The files the line just executed opened, created or truncated, in order.
OpenedFiles == Exec(line, PreMachine).m.opened

\* C38: with redirections stacked on one command, Redirect(Redirect(cmd, k1,
\* a), k2, b), file a is opened before file b; when a cannot be opened, b is
\* never opened, created or truncated and cmd is not run.
C38_InnermostOpenedFirst ==
    (/\ repl_pc = "match"
     /\ line.type = "Redirect"
     /\ line.children[1].type = "Redirect"
     /\ line.children[1].children[1].type = "Command") =>
        LET in == line.children[1] IN
        /\ ~CanOpen(in.kind, in.file) => (OpenedFiles = << >> /\ log = << >>)
        /\ (CanOpen(in.kind, in.file) /\ CanOpen(line.kind, line.file)) =>
               OpenedFiles = << in.file, line.file >>

\* C39: pipeline execution cannot deadlock on a reader waiting for
\* end-of-file.  Children are forked in left-to-right order, the parent has
\* closed every pipe end it made before its first wait, and each child keeps
\* a pipe end only as its own stdin or stdout; so, when every stage ends once
\* it reads end-of-file on its stdin and the first stage ends on its own, a
\* pipeline call that was made eventually returns.
C39_PipelineReturns ==
    /\ [](\A pid \in DOMAIN p_procs :
            /\ p_procs[pid].stage = pid - 1
            /\ \A d \in p_procs[pid].ends :
                  \/ d.stage = p_procs[pid].stage - 1 /\ d.end = "r"
                  \/ d.stage = p_procs[pid].stage /\ d.end = "w")
    /\ [](p_pc = "wait" => p_open = { })
    /\ (p_pc # "idle") ~> (p_pc = "ret")

\* A pipeline of three stages has returned Ok(0), every stage but the first
\* having ended on end-of-file, and all of them waited for.
C39_Witness ==
    /\ p_pc = "ret"
    /\ p_ret = "Ok(0)"
    /\ p_n = 3
    /\ \A pid \in DOMAIN p_procs : p_procs[pid].state = "reaped"

\* C40: when parse returns an AST, every token before Eof has been consumed:
\* no token sequence with tokens left over (a stray `)` after a command, a
\* word after a closed subshell, `| cmd` after a redirection) is accepted
\* with part of the line dropped.
C40_NoLeftoverTokens ==
    (Parsed /\ ps_result.ok) => ps_tokens[ps_result.pos + 1].kind = "Eof"

====
